---------------------------- MODULE Spec2Model ----------------------------
(***************************************************************************)
(* State-machine model of the angular-car simulation:                      *)
(*   - VehicleController (src/src/app/scene/world.controller.ts:510-894):  *)
(*     force/steer/brake commands and the automatic recovery machine;      *)
(*   - Scene (src/src/app/scene/scene.ts): input listeners, the chase      *)
(*     camera and the animate() frame loop;                                *)
(*   - CameraController (src/unnamed/part_000): the extracted camera.      *)
(*                                                                         *)
(* Units.  Positions are in millimetres (1/1000 world unit), velocities in *)
(* cm/s (1/100), quaternion components in 1/1000, joystick axes in 1/1000, *)
(* brake force in 1/100.  recoveryTimer is an IEEE-754 double accumulated  *)
(* with +=, so it is kept bit-exact: a non-negative double below 8.0 is    *)
(* the integer hi * 2^30 + lo counted in units of 2^-58.                   *)
(* The pan offset and the zoom are counted on a grid of equal spacing,     *)
(* 1/1000 wherever drags, wheel and pinch events write them.  The pan's    *)
(* relaxation x += (0 - x) * (delta * 3.0) rounds the product to the grid, *)
(* ties to even, as the double product does; in SpecRelax the grid is the  *)
(* subnormal one, 2^-1074, on which this arithmetic is that of the double  *)
(* bit for bit.                                                            *)
(*                                                                         *)
(* Library semantics used (three.js):                                      *)
(*   Vector3.lerp(v, alpha)            this.x += (v.x - this.x) * alpha,   *)
(*                                     likewise y and z.                   *)
(*                                                                         *)
(* Library semantics used (cannon-es):                                     *)
(*   Vec3.lerp(v, t, target)           writes this + (v - this) * t        *)
(*                                     into target;                       *)
(*   Vec3.scale(s, target)             writes this * s into target;        *)
(*   Quaternion.slerp(to, t, target?)  writes the result into target, a    *)
(*                                     fresh quaternion when omitted, and  *)
(*                                     never modifies this;                *)
(*   Quaternion.vmult(v, target)       rotates v by this.                  *)
(***************************************************************************)
EXTENDS Integers, Sequences, FiniteSets, TLC

(***************************************************************************)
(* Bounds of the model (not program constants).                            *)
(***************************************************************************)
\* most driving inputs (keys, mobile buttons, joystick) asserted at once while
\* the physics may overturn the car (Spec)
MaxInputsHeld == 1
\* the same while the car stays upright (SpecDrive)
MaxDriveInputs == 2
\* the same while the camera is dragged (SpecCamera)
MaxCameraInputs == 1
\* update calls the general specification lets pass once the timer has
\* reached recoveryDelay (recoveryTimer is never capped by the code)
MaxRecoverTicks == 2
\* the same for the frozen-physics scenario, where the position converges
MaxScenarioTicks == 260
\* while the car moves the user drags the camera only from a pan offset
\* below this, in 1/1000
MaxLookPan == 1

(***************************************************************************)
(* Program constants.                                                      *)
(***************************************************************************)
\* VEHICLE_CONFIG.MAX_FORCE
maxForce == 800
\* VEHICLE_CONFIG.MAX_STEER = Math.PI / 8, in 1/1000 rad
maxSteer == 393
\* VEHICLE_CONFIG.BRAKE_FORCE
brakeForce == 200
\* VEHICLE_CONFIG.BRAKE_SMOOTHNESS, in 1/10
brakeSmoothness == 3
\* VEHICLE_CONFIG.MAX_SPEED_KMH
maxSpeedKmh == 30
\* position tolerance 0.1 of the completion test, in mm
PosTolerance == 100
\* quaternion-dot threshold 0.99 of the completion test, in 1e-6
RotThreshold == 990000
\* isCarUpsideDown threshold -0.5 and isCarStuck threshold 0.3, in 1e-6
UpsideDownLimit == 500000
StuckLimit == 300000
\* joystick steering threshold 0.3 (vehicle) in 1/1000
SteerThreshold == 300
\* joystick driving threshold 0.1 (Scene.updateCamera) in 1/1000
JoyDriveThreshold == 100
\* joystickMaxDistance
joystickMaxDistance == 50
\* hysteresis 0.01 of lastCarPosition, in mm
CarMoveThreshold == 10
\* VEHICLE_CONFIG.RECOVERY_SPEED
recoverySpeed == 2
\* const delta = 1 / 60: frames per second
FramesPerSecond == 60
\* CAR_LIGHTS_CONFIG.ACCELERATION_THRESHOLD
AccelerationThreshold == -50
\* zoom limits 0.8 and 1.5, in 1/1000
ZoomMin == 800
ZoomMax == 1500
\* pan limit 20 (the pan is kept in -20..20), in 1/1000
PanLimit == 20000
\* pan sensitivity 0.02, in 1/1000
PanSensitivity == 20
\* Math.cos(Math.PI / 4) = Math.sin(Math.PI / 4), in 1/10000
Cos45 == 7071
\* wheel zoom 0.003 per unit of deltaY and pinch zoom 0.005 per px, in 1/1000
WheelGain == 3
PinchGain == 5

Wheels == 0..3

DrivingKeys == {"w", "arrowup", "s", "arrowdown", "a", "arrowleft", "d", "arrowright"}

\* the keys the modelled user presses: one per control, letters and arrows
PressedKeys == {"w", "arrowdown", "a", "arrowright"}

\* the keys pressed while the physics may overturn the car
RecoveryKeys == {"w", "arrowright"}

(***************************************************************************)
(* IEEE-754 double addition for non-negative values below 8.0.             *)
(* A value is [hi, lo] = (hi * 2^30 + lo) * 2^-58.  The exact sum is       *)
(* rounded to 53 significant bits, ties to even.                           *)
(***************************************************************************)
Limb == 1024 * 1024 * 1024

RECURSIVE Quantum(_)
Quantum(hi) == IF hi < 8388608 THEN 1 ELSE 2 * Quantum(hi \div 2)

FNorm(hi, lo) == [hi |-> hi + (lo \div Limb), lo |-> lo % Limb]

FRound(s) ==
    LET q == Quantum(s.hi)
        r == s.lo % q
        up == (2 * r > q) \/ (2 * r = q /\ ((s.lo \div q) % 2 = 1))
    IN  IF up THEN FNorm(s.hi, s.lo - r + q) ELSE [hi |-> s.hi, lo |-> s.lo - r]

FAdd(a, b) == FRound(FNorm(a.hi + b.hi, a.lo + b.lo))

FGeq(a, b) == a.hi > b.hi \/ (a.hi = b.hi /\ a.lo >= b.lo)

FZero == [hi |-> 0, lo |-> 0]

\* const delta = 1 / 60 = 0x3F91111111111111 = 0x11111111111111 * 2^-58
Delta == [hi |-> 4473924, lo |-> 286331153]

\* VEHICLE_CONFIG.RECOVERY_DELAY = 2.0 = 2^59 * 2^-58
recoveryDelay == [hi |-> 536870912, lo |-> 0]

(***************************************************************************)
(* Vectors and quaternions.                                                *)
(***************************************************************************)
Vec(x, y, z) == [x |-> x, y |-> y, z |-> z]

Quat(x, y, z, w) == [x |-> x, y |-> y, z |-> z, w |-> w]

Abs(n) == IF n < 0 THEN -n ELSE n

Min(a, b) == IF a < b THEN a ELSE b

Max(a, b) == IF a > b THEN a ELSE b

\* truncating division, as a stand-in for the float product a * (n/d)
TruncDiv(a, d) == IF a >= 0 THEN a \div d ELSE -((-a) \div d)

\* floor of the square root, by bisection on lo..hi
RECURSIVE SqrtSearch(_, _, _)
SqrtSearch(n, lo, hi) ==
    IF lo = hi THEN lo
    ELSE LET mid == (lo + hi + 1) \div 2
         IN  IF mid * mid <= n THEN SqrtSearch(n, mid, hi) ELSE SqrtSearch(n, lo, mid - 1)

ISqrt(n) == SqrtSearch(n, 0, 30000)

DistSq(a, b) == (a.x - b.x) * (a.x - b.x) + (a.y - b.y) * (a.y - b.y) + (a.z - b.z) * (a.z - b.z)

LengthSq(v) == v.x * v.x + v.y * v.y + v.z * v.z

\* Vec3.lerp(v, t, target) with t = num/den
Lerp(a, v, num, den) ==
    Vec(a.x + TruncDiv((v.x - a.x) * num, den),
        a.y + TruncDiv((v.y - a.y) * num, den),
        a.z + TruncDiv((v.z - a.z) * num, den))

\* variant: the velocity is set to zero at once
Scale95_Zero(v) == Vec(0, 0, 0)

\* Vec3.scale(0.95, target)
Scale95(v) == Vec(TruncDiv(v.x * 95, 100), TruncDiv(v.y * 95, 100), TruncDiv(v.z * 95, 100))

\* y component of quaternion.vmult((0,1,0)), in 1e-6: 1 - 2(x^2 + z^2)
UpY(q) == q.w * q.w + q.y * q.y - q.x * q.x - q.z * q.z

QuatDot(a, b) == a.x * b.x + a.y * b.y + a.z * b.z + a.w * b.w

ZeroVec == Vec(0, 0, 0)

IdentityQuat == Quat(0, 0, 0, 1000)

(***************************************************************************)
(* State.                                                                  *)
(***************************************************************************)
VARIABLES
    vehicle,            \* Scene.vehicle is set (the car has been loaded)
    sceneKeys,          \* Scene.keys: the driving keys whose entry is true
    vehicleKeys,        \* VehicleController.keys: the same, its own map
    isMobile,           \* Scene.isMobile
    mobileAccelerate,   \* Scene.mobileAccelerate
    mobileBrake,        \* Scene.mobileBrake
    joystickActive,     \* Scene.joystickActive
    joystickDirection,  \* Scene.joystickDirection, [x, y] in 1/1000
    chassisBody,        \* CANNON.Body: position, quaternion, velocity, angularVelocity
    originalPosition,   \* VehicleController.originalPosition
    originalQuaternion, \* VehicleController.originalQuaternion
    recoveryTimer,      \* VehicleController.recoveryTimer (double)
    isRecovering,       \* VehicleController.isRecovering
    wheelInfos,         \* RaycastVehicle.wheelInfos[i]: engineForce, steering, brake
    wheelsMeshes,       \* VehicleController.wheelsMeshes: pose of the four visual wheels
    carMesh,            \* visual chassis proxy: position, quaternion
    lastUpdate,         \* what the last VehicleController.update call did
    lastRender,         \* what renderer.render drew in the last frame with the car
    isPanning,          \* Scene.isPanning
    isDetached,         \* Scene.isDetached
    isPinching,         \* Scene.isPinching
    cameraPanOffset,    \* Scene.cameraPanOffset, [x, z] in grid steps
    cameraScrollZoom,   \* Scene.cameraScrollZoom, in 1/1000
    lastCarPosition,    \* Scene.lastCarPosition
    lastMouse,          \* Scene.lastMouseX, Scene.lastMouseY, in px
    lastPinchDistance,  \* Scene.lastPinchDistance, in px
    lastCamera,         \* what the last Scene.updateCamera call did
    cameraController,   \* a CameraController: its fields and what its last update did
    mobileControlsService \* a MobileControlsService: its fields and its last notification

inputVars == <<sceneKeys, vehicleKeys, isMobile, mobileAccelerate, mobileBrake,
               joystickActive, joystickDirection>>

vehicleVars == <<vehicle, chassisBody, originalPosition, originalQuaternion,
                 recoveryTimer, isRecovering, wheelInfos, wheelsMeshes, carMesh, lastUpdate,
                 lastRender>>

cameraVars == <<isPanning, isDetached, isPinching, cameraPanOffset, cameraScrollZoom,
                lastCarPosition, lastMouse, lastPinchDistance, lastCamera, cameraController>>

serviceVars == <<mobileControlsService>>

vars == <<inputVars, vehicleVars, cameraVars, serviceVars>>

(***************************************************************************)
(* The physics engine is a black box: world.step(delta) may leave the      *)
(* chassis in any pose and velocity.  PhysicsOutcomes are the chassis      *)
(* states the models lets a step produce.                                  *)
(***************************************************************************)
Body(p, q, v, w) == [position |-> p, quaternion |-> q, velocity |-> v, angularVelocity |-> w]

\* this.chassisBody.position.set(0, 6.0, 0); velocity and angularVelocity 0
SpawnBody == Body(Vec(0, 6000, 0), IdentityQuat, ZeroVec, ZeroVec)

\* rolled about the forward axis so that the rotated up vector has y = -0.9
UpsideDownQuat == Quat(0, 0, 975, 224)
\* rolled 90 degrees on its side: y = 0
OnSideQuat == Quat(0, 0, 707, 707)
\* rolled so that y = -0.4: neither upside down (< -0.5) nor stuck (|y| < 0.3)
GapQuat == Quat(0, 0, 837, 548)
\* yawed 45 degrees, upright
YawQuat == Quat(0, 383, 0, 924)

PhysicsOutcomes ==
    { SpawnBody,
      Body(Vec(0, 800, 0), IdentityQuat, ZeroVec, ZeroVec),
      Body(Vec(3000, 800, 4000), YawQuat, Vec(300, 0, -400), Vec(0, 20, 0)),
      Body(Vec(3000, 800, 4000), IdentityQuat, Vec(600, 0, -800), ZeroVec),
      Body(Vec(3000, 500, 4000), UpsideDownQuat, Vec(0, -100, 0), Vec(0, 0, 50)),
      Body(Vec(40, 6030, 0), OnSideQuat, Vec(10, 0, 0), Vec(0, 0, 40)),
      Body(Vec(3000, 700, 4000), GapQuat, Vec(0, 0, 10), ZeroVec) }

(***************************************************************************)
(* VehicleController: the recovery state machine.                          *)
(***************************************************************************)
isCarUpsideDown(q) == UpY(q) < -UpsideDownLimit

isCarStuck(q) == Abs(UpY(q)) < StuckLimit

hasAnyInput(keys) ==
    \/ "w" \in keys \/ "arrowup" \in keys
    \/ "s" \in keys \/ "arrowdown" \in keys
    \/ "a" \in keys \/ "arrowleft" \in keys
    \/ "d" \in keys \/ "arrowright" \in keys

\* currentQuat.slerp(targetQuat, t) returns the interpolated quaternion in a
\* fresh object and leaves currentQuat as it was; the result is dropped, so
\* chassisBody.quaternion.copy(currentQuat) writes back the same orientation.
SlerpDiscarded(q, target) == q

\* variant: the dot product is compared as it is, sign included
rotationDiff_Signed(quat, targetQuat) == QuatDot(quat, targetQuat)

\* const rotationDiff = Math.abs(q.x * t.x + q.y * t.y + q.z * t.z + q.w * t.w)
rotationDiff(quat, targetQuat) == Abs(QuatDot(quat, targetQuat))

\* the completion test at the end of performRecovery
RecoveryComplete(pos, quat) ==
    /\ DistSq(pos, originalPosition) < PosTolerance * PosTolerance
    /\ rotationDiff(quat, originalQuaternion) > RotThreshold

\* performRecovery(delta): the body it leaves and the state it sets
performRecovery(body, timer) ==
    LET pos  == Lerp(body.position, originalPosition, recoverySpeed, FramesPerSecond)
        quat == SlerpDiscarded(body.quaternion, originalQuaternion)
        done == RecoveryComplete(pos, quat)
    IN  [ body          |-> Body(pos, quat, Scale95(body.velocity), Scale95(body.angularVelocity)),
          isRecovering  |-> ~done,
          recoveryTimer |-> IF done THEN FZero ELSE timer,
          completed     |-> done ]

\* variants of the guard: the input is not consulted; nothing is consulted
RecoveryDemand_IgnoresInput(upsideDown, stuck, hasInput) == upsideDown \/ stuck

RecoveryDemand_Always(upsideDown, stuck, hasInput) == TRUE

\* if ((isUpsideDown || isStuck) && hasInput)
RecoveryDemand(upsideDown, stuck, hasInput) == (upsideDown \/ stuck) /\ hasInput

\* variant: recovery starts without waiting for recoveryDelay
ShouldStartRecovery_NoDelay(timer, rec) == ~rec

\* this.recoveryTimer >= this.recoveryDelay && !this.isRecovering
ShouldStartRecovery(timer, rec) == FGeq(timer, recoveryDelay) /\ ~rec

\* variant: the else branch clears the flag only and keeps the timer
ResetRecovery_KeepsTimer(timer, rec) == [recoveryTimer |-> timer, isRecovering |-> FALSE]

\* variant: the else branch resets the timer only
ResetRecovery_KeepsFlag(timer, rec) == [recoveryTimer |-> FZero, isRecovering |-> rec]

\* the else branch: this.recoveryTimer = 0; this.isRecovering = false
ResetRecovery(timer, rec) == [recoveryTimer |-> FZero, isRecovering |-> FALSE]

\* updateRecovery(delta) on the chassis `body`, timer `timer`, flag `rec`, keys `keys`
updateRecovery(body, timer, rec, keys) ==
    LET upsideDown == isCarUpsideDown(body.quaternion)
        stuck    == isCarStuck(body.quaternion)
        hasInput == hasAnyInput(keys)
        demand   == RecoveryDemand(upsideDown, stuck, hasInput)
        reset    == ResetRecovery(timer, rec)
        timer1   == IF demand THEN FAdd(timer, Delta) ELSE reset.recoveryTimer
        started  == demand /\ ShouldStartRecovery(timer1, rec)
        rec1     == IF demand THEN (rec \/ started) ELSE reset.isRecovering
        pr       == performRecovery(body, timer1)
    IN  [ body          |-> IF rec1 THEN pr.body ELSE body,
          recoveryTimer |-> IF rec1 THEN pr.recoveryTimer ELSE timer1,
          isRecovering  |-> IF rec1 THEN pr.isRecovering ELSE FALSE,
          physicsBody   |-> body,
          wasRecovering |-> rec,
          keys          |-> keys,
          fault         |-> upsideDown \/ stuck,
          hasInput      |-> hasInput,
          startRecovery |-> started,
          performRecovery |-> rec1,
          completed     |-> rec1 /\ pr.completed ]

(***************************************************************************)
(* VehicleController.update: engine force, steering, brake.                *)
(***************************************************************************)
\* the mobileControls argument built by Scene.animate (undefined on desktop)
MobileControls ==
    IF isMobile
    THEN [ defined |-> TRUE, accelerate |-> mobileAccelerate, brake |-> mobileBrake,
           steerX |-> joystickDirection.x, steerY |-> joystickDirection.y ]
    ELSE [ defined |-> FALSE, accelerate |-> FALSE, brake |-> FALSE, steerX |-> 0, steerY |-> 0 ]

\* currentSpeedMs > this.maxSpeedMs, maxSpeedMs = maxSpeedKmh / 3.6; speedSq in (cm/s)^2
isOverMaxSpeed(speedSq) == 81 * speedSq > (maxSpeedKmh * 250) * (maxSpeedKmh * 250)

\* variants: the throttle follows the joystick's y axis; the governor is absent
engineForceOf_Analog(keys, mc, over) ==
    LET forward == (("w" \in keys \/ "arrowup" \in keys) \/ (mc.defined /\ mc.accelerate)) /\ ~over
        reverse == ("s" \in keys \/ "arrowdown" \in keys) \/ (mc.defined /\ mc.brake)
    IN  IF reverse THEN maxForce
        ELSE IF forward THEN -maxForce
        ELSE -TruncDiv(maxForce * mc.steerY, 1000)

engineForceOf_NoGovernor(keys, mc, over) ==
    LET forward == ("w" \in keys \/ "arrowup" \in keys) \/ (mc.defined /\ mc.accelerate)
        reverse == ("s" \in keys \/ "arrowdown" \in keys) \/ (mc.defined /\ mc.brake)
    IN  IF reverse THEN maxForce ELSE IF forward THEN -maxForce ELSE 0

\* variant: the two ifs in the other order, so that accelerate wins over reverse
engineForceOf_AccelerateWins(keys, mc, over) ==
    LET forward == (("w" \in keys \/ "arrowup" \in keys) \/ (mc.defined /\ mc.accelerate)) /\ ~over
        reverse == ("s" \in keys \/ "arrowdown" \in keys) \/ (mc.defined /\ mc.brake)
    IN  IF forward THEN -maxForce ELSE IF reverse THEN maxForce ELSE 0

\* engineForce = 0; if (accelerate && !isOverMaxSpeed) engineForce = -maxForce;
\* if (reverse) engineForce = maxForce
engineForceOf(keys, mc, over) ==
    LET forward == (("w" \in keys \/ "arrowup" \in keys) \/ (mc.defined /\ mc.accelerate)) /\ ~over
        reverse == ("s" \in keys \/ "arrowdown" \in keys) \/ (mc.defined /\ mc.brake)
    IN  IF reverse THEN maxForce ELSE IF forward THEN -maxForce ELSE 0

\* variant: the two ifs in the other order, so that left wins over right
steerValueOf_LeftWins(keys, mc) ==
    LET left  == ("a" \in keys \/ "arrowleft" \in keys)
                 \/ (mc.defined /\ mc.steerX # 0 /\ mc.steerX < -SteerThreshold)
        right == ("d" \in keys \/ "arrowright" \in keys)
                 \/ (mc.defined /\ mc.steerX # 0 /\ mc.steerX > SteerThreshold)
    IN  IF left THEN maxSteer ELSE IF right THEN -maxSteer ELSE 0

steerValueOf(keys, mc) ==
    LET left  == ("a" \in keys \/ "arrowleft" \in keys)
                 \/ (mc.defined /\ mc.steerX # 0 /\ mc.steerX < -SteerThreshold)
        right == ("d" \in keys \/ "arrowright" \in keys)
                 \/ (mc.defined /\ mc.steerX # 0 /\ mc.steerX > SteerThreshold)
    IN  IF right THEN -maxSteer ELSE IF left THEN maxSteer ELSE 0

\* variant: the smooth brake is proportional to the speed with no upper limit
brakeOf_Uncapped(engineForce, speedSq) ==
    IF Abs(engineForce) < 1 THEN ISqrt(speedSq) * 50 ELSE 0

\* variant: the smooth brake is applied whatever the engine force
brakeOf_Always(engineForce, speedSq) ==
    Min(brakeForce * brakeSmoothness * 10, ISqrt(speedSq) * 50)

\* the value passed to setBrake on every wheel, in 1/100
brakeOf(engineForce, speedSq) ==
    IF Abs(engineForce) < 1
    THEN Min(brakeForce * brakeSmoothness * 10, ISqrt(speedSq) * 50)
    ELSE 0

\* variant: the headlights come on with any engine force, reverse included
HeadlightsOn_AnyForce(engineForce) == Abs(engineForce) > -AccelerationThreshold

\* CarLightsService.updateHeadlights: isAcceleratingForward, on which
\* turnOnHeadlights (true) or turnOffHeadlights (false) moves the colours
HeadlightsOn(engineForce) == engineForce < AccelerationThreshold

\* chassisConnectionPointLocal of the wheels 0..3, from wheelPositions
wheelPositions ==
    [i \in Wheels |->
        Vec(IF i \in {0, 2} THEN -1200 ELSE 1200, 0, IF i \in {0, 1} THEN 1500 ELSE -1500)]

\* Quaternion.vmult: v rotated by q, as v + w * t + q x t with t = 2 (q x v)
Rotate(q, v) ==
    LET tx == TruncDiv(2 * (q.y * v.z - q.z * v.y), 1000)
        ty == TruncDiv(2 * (q.z * v.x - q.x * v.z), 1000)
        tz == TruncDiv(2 * (q.x * v.y - q.y * v.x), 1000)
    IN  Vec(v.x + TruncDiv(q.w * tx + (q.y * tz - q.z * ty), 1000),
            v.y + TruncDiv(q.w * ty + (q.z * tx - q.x * tz), 1000),
            v.z + TruncDiv(q.w * tz + (q.x * ty - q.y * tx), 1000))

\* wheelInfos[i].worldTransform as world.step leaves it for the chassis `body`:
\* the connection point carried along with the chassis (suspension travel,
\* steering and spin left out).  A recovery override later in the same tick
\* does not touch it.
WheelWorldTransform(body, i) ==
    LET p == Rotate(body.quaternion, wheelPositions[i])
    IN  [ position   |-> Vec(body.position.x + p.x, body.position.y + p.y, body.position.z + p.z),
          quaternion |-> body.quaternion ]

\* the transform of a fresh WheelInfo and of a visual wheel not yet synchronised
NoTransform == [position |-> ZeroVec, quaternion |-> IdentityQuat]

\* variant: the proxies are left alone on a tick on which recovery overrides
\* the chassis
CopyTransform_SkipsRecovery(recovering, source, proxy) ==
    IF recovering THEN proxy
    ELSE [position |-> source.position, quaternion |-> source.quaternion]

\* proxy.position.copy(source.position); proxy.quaternion.copy(source.quaternion),
\* whether or not this tick performed a recovery
CopyTransform(recovering, source, proxy) ==
    [position |-> source.position, quaternion |-> source.quaternion]

\* variant: setSteeringValue is called for every wheel
SteeredWheels_All == Wheels

\* the wheel indices setSteeringValue is called with: the front wheels
SteeredWheels == {0, 1}

\* variant: the speed read and the copy to the proxy see the chassis as the
\* physics step left it, the recovery machine running after them
ChassisRead_BeforeRecovery(r) == r.physicsBody

\* this.chassisBody as the speed read (line 719) and the copy to carMesh
\* (lines 762-763) find it: updateRecovery (line 712) has already run
ChassisRead(r) == r.body

\* update(delta, mobileControls), r being the result of its first statement,
\* this.updateRecovery(delta), on the chassis as the physics step left it
\* (lastUpdate.demandTicks counts the update calls in a row, this one
\* included, that found the fault and the input)
update(r, mc) ==
    LET seen   == ChassisRead(r)
        speed2 == LengthSq(seen.velocity)
        over   == isOverMaxSpeed(speed2)
        force  == engineForceOf(r.keys, mc, over)
        steer  == steerValueOf(r.keys, mc)
        brake  == brakeOf(force, speed2)
    IN  [ body          |-> r.body,
          recoveryTimer |-> r.recoveryTimer,
          isRecovering  |-> r.isRecovering,
          wheelInfos    |-> [i \in Wheels |->
                               [ worldTransform |-> WheelWorldTransform(r.physicsBody, i),
                                 engineForce |-> force,
                                 steering    |-> IF i \in SteeredWheels THEN steer
                                                 ELSE wheelInfos[i].steering,
                                 brake       |-> brake ]],
          carMesh       |-> CopyTransform(r.performRecovery, seen, carMesh),
          wheelsMeshes  |-> [i \in Wheels |->
                               CopyTransform(r.performRecovery,
                                             WheelWorldTransform(r.physicsBody, i), wheelsMeshes[i])],
          lastUpdate    |-> [ called |-> TRUE, keys |-> r.keys, mc |-> mc,
                              headlightsOn |-> HeadlightsOn(force),
                              physicsBody |-> r.physicsBody, speedSq |-> speed2,
                              wasRecovering |-> r.wasRecovering,
                              fault |-> r.fault, hasInput |-> r.hasInput,
                              startRecovery |-> r.startRecovery,
                              performRecovery |-> r.performRecovery,
                              completed |-> r.completed,
                              demandTicks |-> IF r.fault /\ r.hasInput
                                              THEN lastUpdate.demandTicks + 1 ELSE 0 ] ]

\* lastUpdate before any update call
NoUpdate ==
    [ called |-> FALSE, keys |-> {}, headlightsOn |-> FALSE,
      mc |-> [ defined |-> FALSE, accelerate |-> FALSE, brake |-> FALSE, steerX |-> 0, steerY |-> 0 ],
      physicsBody |-> Body(ZeroVec, IdentityQuat, ZeroVec, ZeroVec), speedSq |-> 0,
      wasRecovering |-> FALSE, fault |-> FALSE, hasInput |-> FALSE, startRecovery |-> FALSE,
      performRecovery |-> FALSE, completed |-> FALSE, demandTicks |-> 0 ]

(***************************************************************************)
(* Scene.updateCamera: driving detection, re-attachment, pan relaxation.   *)
(***************************************************************************)
Pan(x, z) == [x |-> x, z |-> z]

\* isDriving as Scene.updateCamera computes it
isDriving ==
    \/ "w" \in sceneKeys \/ "arrowup" \in sceneKeys
    \/ "s" \in sceneKeys \/ "arrowdown" \in sceneKeys
    \/ "a" \in sceneKeys \/ "arrowleft" \in sceneKeys
    \/ "d" \in sceneKeys \/ "arrowright" \in sceneKeys
    \/ mobileAccelerate \/ mobileBrake
    \/ Abs(joystickDirection.x) > JoyDriveThreshold
    \/ Abs(joystickDirection.y) > JoyDriveThreshold

\* variant: driving never re-attaches the camera
Reattach_Never(driving, detached) == FALSE

\* if (isDriving && this.isDetached)
Reattach(driving, detached) == driving /\ detached

\* variant: re-attaching clears isDetached and leaves a drag in progress
PanningAfterReattach_Kept(reattach, panning) == panning

\* this.isPanning = false in the body of if (isDriving && this.isDetached)
PanningAfterReattach(reattach, panning) == IF reattach THEN FALSE ELSE panning

\* variant: the pan offset relaxes whenever no drag is in progress
ShouldRelaxPan_Released(detached, panning) == ~panning

\* if (!this.isDetached && !this.isPanning)
ShouldRelaxPan(detached, panning) == ~detached /\ ~panning

\* delta * 3.0 with delta = 1/60: the double 0x3FA999999999999A, in 2^-58
Alpha == FRound(FNorm(3 * Delta.hi, 3 * Delta.lo))

HalfLimb == 32 * 1024

\* n * Alpha for 0 <= n < 2^15, rounded to the nearest integer, ties to even:
\* the double product of n quanta with delta * 3.0 on a grid of equal
\* spacing.  The product is formed exactly in limbs of 15 bits; 2^58 is
\* 2^13 times the weight 2^45 of the top limb.
RoundedAlphaTimes(n) ==
    LET c0  == n * (Alpha.lo % HalfLimb)
        c1  == n * (Alpha.lo \div HalfLimb) + (c0 \div HalfLimb)
        c2  == n * (Alpha.hi % HalfLimb) + (c1 \div HalfLimb)
        top == n * (Alpha.hi \div HalfLimb) + (c2 \div HalfLimb)
        q   == top \div 8192
        r   == top % 8192
        low == (c2 % HalfLimb) + (c1 % HalfLimb) + (c0 % HalfLimb)
        up  == r > 4096 \/ (r = 4096 /\ low > 0) \/ (r = 4096 /\ low = 0 /\ q % 2 = 1)
    IN  IF up THEN q + 1 ELSE q

\* variant: the interpolation runs away from the target (x -= (0 - x) * alpha)
LerpToZero_Away(x) == IF x >= 0 THEN x + RoundedAlphaTimes(x) ELSE x - RoundedAlphaTimes(-x)

\* one component of Vector3.lerp((0,0,0), delta * 3.0): x += (0 - x) * alpha.
\* 0 - x is exact, the product is rounded to the grid, the sum is exact.
LerpToZero(x) == IF x >= 0 THEN x - RoundedAlphaTimes(x) ELSE x + RoundedAlphaTimes(-x)

\* cameraPanOffset.lerp((0,0,0), delta * 3.0), delta = frames / 60 with
\* frames 0 (updateCamera(0) after loading, which leaves the offset) or 1
RelaxPan(pan, frames) ==
    IF frames = 0 THEN pan ELSE Pan(LerpToZero(pan.x), LerpToZero(pan.z))

\* variant: the copy runs the other way, carPos.copy(this.lastCarPosition)
CarPosAfterCamera_CopiedBack(carPos, lastCar) == lastCar

\* const carPos = this.vehicle.chassisBody.position is the chassis position
\* itself, not a copy.  updateCamera hands it to distanceTo, to
\* lastCarPosition.copy and to addVectors on fresh vectors, which read their
\* arguments only: the chassis position after the call is the one before.
CarPosAfterCamera(carPos, lastCar) == carPos

\* private cameraIdealLookat = new THREE.Vector3(0, 0, 0)
cameraIdealLookat == ZeroVec

\* variant: the camera looks at the car whether detached or not
LookatPoint_AlwaysCar(detached, carPos, lastPos, pan) ==
    Vec(carPos.x + cameraIdealLookat.x, carPos.y + cameraIdealLookat.y,
        carPos.z + cameraIdealLookat.z)

\* lookatPoint: lastCarPosition + pan if detached, carPos + cameraIdealLookat
\* if not (pan.y is 0: no handler writes it)
LookatPoint(detached, carPos, lastPos, pan) ==
    IF detached
    THEN Vec(lastPos.x + pan.x, lastPos.y, lastPos.z + pan.z)
    ELSE Vec(carPos.x + cameraIdealLookat.x, carPos.y + cameraIdealLookat.y,
             carPos.z + cameraIdealLookat.z)

\* updateCamera(delta) with the chassis at carPos and lastCarPosition = lastCar;
\* delta = frames / 60
updateCamera(carPos, lastCar, frames) ==
    LET reattach == Reattach(isDriving, isDetached)
        detached == IF reattach THEN FALSE ELSE isDetached
        panning  == PanningAfterReattach(reattach, isPanning)
        pinching == IF reattach THEN FALSE ELSE isPinching
        lastPos  == IF ~detached /\ DistSq(carPos, lastCar) > CarMoveThreshold * CarMoveThreshold
                    THEN carPos ELSE lastCar
        pan      == IF ShouldRelaxPan(detached, panning) THEN RelaxPan(cameraPanOffset, frames)
                    ELSE cameraPanOffset
        lookat   == LookatPoint(detached, carPos, lastPos, pan)
    IN  [ isDetached |-> detached, isPanning |-> panning, isPinching |-> pinching,
          lastCarPosition |-> lastPos, cameraPanOffset |-> pan,
          carPos |-> CarPosAfterCamera(carPos, lastCar),
          lastCamera |-> [ called |-> TRUE, isDriving |-> isDriving, reattached |-> reattach,
                           wasDetached |-> isDetached, wasPanning |-> isPanning,
                           lookatPoint |-> lookat ] ]

NoCamera ==
    [ called |-> FALSE, isDriving |-> FALSE, reattached |-> FALSE, wasDetached |-> FALSE,
      wasPanning |-> FALSE, lookatPoint |-> ZeroVec ]

\* the fields of Scene that updateCamera writes
ApplySceneCamera(c) ==
    /\ isDetached' = c.isDetached
    /\ isPanning' = c.isPanning
    /\ isPinching' = c.isPinching
    /\ lastCarPosition' = c.lastCarPosition
    /\ cameraPanOffset' = c.cameraPanOffset
    /\ lastCamera' = c.lastCamera
    /\ UNCHANGED <<lastMouse, lastPinchDistance, cameraScrollZoom>>

ApplyCamera(c) == ApplySceneCamera(c) /\ UNCHANGED cameraController

(***************************************************************************)
(* Scene.animate: the order of its calls.                                  *)
(***************************************************************************)
\* this.vehicle?.update(delta, mobileControls) comes before
\* this.updateCamera(delta): carPos is the chassis position update left
CameraCarPos(stepped, updated) == updated.position

\* variant: the image is drawn before updateCamera has moved the camera
Rendered_BeforeCamera(mesh, cameraBefore, cameraAfter) ==
    [ drawn |-> TRUE, carMesh |-> mesh, lookatPoint |-> cameraBefore.lookatPoint ]

\* this.renderer.render(this.scene, this.camera), the last statement of
\* animate: the visual chassis as update left it, seen through the camera
\* as updateCamera left it
Rendered(mesh, cameraBefore, cameraAfter) ==
    [ drawn |-> TRUE, carMesh |-> mesh, lookatPoint |-> cameraAfter.lookatPoint ]

NoRender ==
    [ drawn |-> FALSE, carMesh |-> [position |-> ZeroVec, quaternion |-> IdentityQuat],
      lookatPoint |-> ZeroVec ]

(***************************************************************************)
(* CameraController (the extracted camera class): its state after          *)
(* construction.                                                           *)
(***************************************************************************)
NewCameraController ==
    [ isPanning |-> FALSE, isDetached |-> FALSE, cameraPanOffset |-> Pan(0, 0),
      cameraScrollZoom |-> 1000, lastCarPosition |-> ZeroVec, lastMouse |-> <<0, 0>>,
      lastUpdate |-> [called |-> FALSE, isDriving |-> FALSE, wasDetached |-> FALSE] ]

(***************************************************************************)
(* MobileControlsService (the extracted mobile controls class): its state  *)
(* after construction.  `notified` is the state last handed to the         *)
(* onStateChange callback.                                                 *)
(***************************************************************************)
NewMobileControlsService ==
    [ joystickActive |-> FALSE, joystickDirection |-> [x |-> 0, y |-> 0],
      mobileAccelerate |-> FALSE, mobileBrake |-> FALSE,
      notified |-> [called |-> FALSE, accelerate |-> FALSE, brake |-> FALSE, steerX |-> 0, steerY |-> 0] ]

(***************************************************************************)
(* Initial state: Scene constructed, ngAfterViewInit and detectMobile run, *)
(* the world and the car still loading.                                    *)
(***************************************************************************)
NoWheels ==
    [i \in Wheels |-> [worldTransform |-> NoTransform, engineForce |-> 0, steering |-> 0, brake |-> 0]]

Init ==
    /\ vehicle = FALSE
    /\ sceneKeys = {}
    /\ vehicleKeys = {}
    /\ isMobile \in BOOLEAN
    /\ mobileAccelerate = FALSE
    /\ mobileBrake = FALSE
    /\ joystickActive = FALSE
    /\ joystickDirection = [x |-> 0, y |-> 0]
    /\ chassisBody = Body(ZeroVec, IdentityQuat, ZeroVec, ZeroVec)
    /\ originalPosition = ZeroVec
    /\ originalQuaternion = IdentityQuat
    /\ recoveryTimer = FZero
    /\ isRecovering = FALSE
    /\ wheelInfos = NoWheels
    /\ wheelsMeshes = [i \in Wheels |-> NoTransform]
    /\ carMesh = [position |-> ZeroVec, quaternion |-> IdentityQuat]
    /\ lastUpdate = NoUpdate
    /\ lastRender = NoRender
    /\ isPanning = FALSE
    /\ isDetached = FALSE
    /\ isPinching = FALSE
    /\ cameraPanOffset = Pan(0, 0)
    /\ cameraScrollZoom = 1000
    /\ lastCarPosition = ZeroVec
    /\ lastMouse = <<0, 0>>
    /\ lastPinchDistance = 0
    /\ lastCamera = NoCamera
    /\ cameraController = NewCameraController
    /\ mobileControlsService = NewMobileControlsService

\* variant: loadCar does not capture the pose; the record stays as constructed
RecoveryRecord_NotCaptured(body) == [position |-> ZeroVec, quaternion |-> IdentityQuat]

\* this.originalPosition.copy(this.chassisBody.position);
\* this.originalQuaternion.copy(this.chassisBody.quaternion)
RecoveryRecord(body) == [position |-> body.position, quaternion |-> body.quaternion]

(***************************************************************************)
(* loadCar, run from the GLTF loader callback once the world is loaded:    *)
(* new VehicleController(world), loadCar(mesh), lastCarPosition.copy,      *)
(* updateCamera(0).                                                        *)
(***************************************************************************)
loadCar ==
    /\ ~vehicle
    /\ vehicle' = TRUE
    /\ vehicleKeys' = {}
    /\ chassisBody' = SpawnBody
    /\ originalPosition' = RecoveryRecord(SpawnBody).position
    /\ originalQuaternion' = RecoveryRecord(SpawnBody).quaternion
    /\ recoveryTimer' = FZero
    /\ isRecovering' = FALSE
    /\ wheelInfos' = NoWheels
    /\ wheelsMeshes' = [i \in Wheels |-> NoTransform]
    /\ UNCHANGED <<carMesh, lastUpdate, lastRender>>
    /\ ApplyCamera(updateCamera(SpawnBody.position, SpawnBody.position, 0))
    /\ UNCHANGED <<sceneKeys, isMobile, mobileAccelerate, mobileBrake, joystickActive,
                   joystickDirection, serviceVars>>

(***************************************************************************)
(* Keyboard listeners: Scene's from initCameraControls, the vehicle's from *)
(* its constructor (so only once the car is loaded).                       *)
(***************************************************************************)
\* number of driving inputs asserted with the keys `keys`, buttons `acc`, `brk`
\* and the joystick touched or not
InputsHeld(keys, acc, brk, joy) ==
    Cardinality(keys) + (IF acc THEN 1 ELSE 0) + (IF brk THEN 1 ELSE 0) + (IF joy THEN 1 ELSE 0)

keydown(k, max) ==
    /\ InputsHeld(sceneKeys \cup {k}, mobileAccelerate, mobileBrake, joystickActive) <= max
    /\ sceneKeys' = sceneKeys \cup {k}
    /\ vehicleKeys' = IF vehicle THEN vehicleKeys \cup {k} ELSE vehicleKeys
    /\ UNCHANGED <<isMobile, mobileAccelerate, mobileBrake, joystickActive, joystickDirection>>
    /\ UNCHANGED <<vehicleVars, cameraVars, serviceVars>>

keyup(k) ==
    /\ sceneKeys' = sceneKeys \ {k}
    /\ vehicleKeys' = IF vehicle THEN vehicleKeys \ {k} ELSE vehicleKeys
    /\ UNCHANGED <<isMobile, mobileAccelerate, mobileBrake, joystickActive, joystickDirection>>
    /\ UNCHANGED <<vehicleVars, cameraVars, serviceVars>>

(***************************************************************************)
(* Mobile controls (installed by initMobileControls only when isMobile).   *)
(***************************************************************************)
setMobileAccelerate(b, max) ==
    /\ isMobile
    /\ InputsHeld(sceneKeys, b, mobileBrake, joystickActive) <= max
    /\ mobileAccelerate' = b
    /\ UNCHANGED <<sceneKeys, vehicleKeys, isMobile, mobileBrake, joystickActive, joystickDirection>>
    /\ UNCHANGED <<vehicleVars, cameraVars, serviceVars>>

setMobileBrake(b, max) ==
    /\ isMobile
    /\ InputsHeld(sceneKeys, mobileAccelerate, b, joystickActive) <= max
    /\ mobileBrake' = b
    /\ UNCHANGED <<sceneKeys, vehicleKeys, isMobile, mobileAccelerate, joystickActive, joystickDirection>>
    /\ UNCHANGED <<vehicleVars, cameraVars, serviceVars>>

onJoystickStart(max) ==
    /\ isMobile
    /\ InputsHeld(sceneKeys, mobileAccelerate, mobileBrake, TRUE) <= max
    /\ joystickActive' = TRUE
    /\ UNCHANGED <<sceneKeys, vehicleKeys, isMobile, mobileAccelerate, mobileBrake, joystickDirection>>
    /\ UNCHANGED <<vehicleVars, cameraVars, serviceVars>>

\* pointer offsets (clientX - joystickCenter.x, clientY - joystickCenter.y), in px
JoystickOffsets == { <<-60, 0>>, <<12, 16>>, <<60, 0>> }

\* the direction onJoystickMove stores for the offset (dx, dy), in 1/1000
JoystickDirectionOf(dx, dy) ==
    LET distance == ISqrt(dx * dx + dy * dy)
        limited  == Min(distance, joystickMaxDistance)
    IN  [ x |-> IF limited > 0 THEN TruncDiv(dx * limited * 1000, distance * joystickMaxDistance) ELSE 0,
          y |-> IF limited > 0 THEN TruncDiv(dy * limited * 1000, distance * joystickMaxDistance) ELSE 0 ]

onJoystickMove(dx, dy) ==
    /\ isMobile
    /\ joystickActive
    /\ joystickDirection' = JoystickDirectionOf(dx, dy)
    /\ UNCHANGED <<sceneKeys, vehicleKeys, isMobile, mobileAccelerate, mobileBrake, joystickActive>>
    /\ UNCHANGED <<vehicleVars, cameraVars, serviceVars>>

onJoystickEnd ==
    /\ isMobile
    /\ joystickActive' = FALSE
    /\ joystickDirection' = [x |-> 0, y |-> 0]
    /\ UNCHANGED <<sceneKeys, vehicleKeys, isMobile, mobileAccelerate, mobileBrake>>
    /\ UNCHANGED <<vehicleVars, cameraVars, serviceVars>>

(***************************************************************************)
(* Scene.animate: world.step, vehicle?.update, updateCamera.               *)
(***************************************************************************)
\* the largest recoveryTimer the general specification lets an update reach
\* (recoveryDelay plus MaxRecoverTicks + 1 frames, rounded down to a whole limb)
TimerCap == [hi |-> recoveryDelay.hi + (MaxRecoverTicks + 1) * Delta.hi, lo |-> 0]

\* one frame in which world.step leaves the chassis as `o`
\* (the singleton sets bind each result once)
SceneFrame(o, cap) ==
    \E r \in {updateRecovery(o, recoveryTimer, isRecovering, vehicleKeys)} :
    \E u \in {update(r, MobileControls)} :
    \E c \in {updateCamera(CameraCarPos(o, u.body), lastCarPosition, 1)} :
        /\ FGeq(cap, u.recoveryTimer)
        /\ chassisBody' = [u.body EXCEPT !.position = c.carPos]
        /\ recoveryTimer' = u.recoveryTimer
        /\ isRecovering' = u.isRecovering
        /\ wheelInfos' = u.wheelInfos
        /\ wheelsMeshes' = u.wheelsMeshes
        /\ carMesh' = u.carMesh
        /\ lastUpdate' = u.lastUpdate
        /\ ApplySceneCamera(c)
        /\ lastRender' = Rendered(u.carMesh, lastCamera, c.lastCamera)
        /\ UNCHANGED <<vehicle, originalPosition, originalQuaternion, inputVars, serviceVars>>

Frame(o, cap) == SceneFrame(o, cap) /\ UNCHANGED cameraController

\* the outcomes in which the chassis stays upright
UprightOutcomes == { o \in PhysicsOutcomes : ~isCarUpsideDown(o.quaternion) /\ ~isCarStuck(o.quaternion) }

\* variant: the frame runs update and updateCamera without looking at vehicle
animate_Unguarded(outcomes) == \E o \in outcomes : Frame(o, TimerCap)

\* this.vehicle?.update(...) and, in updateCamera, if (!this.vehicle) return
animate(outcomes) ==
    IF vehicle
    THEN \E o \in outcomes : Frame(o, TimerCap)
    ELSE UNCHANGED vars

(***************************************************************************)
(* Spec: the program while the physics may overturn the car.               *)
(***************************************************************************)
Next ==
    \/ loadCar
    \/ \E k \in RecoveryKeys : keydown(k, MaxInputsHeld)
    \/ \E k \in RecoveryKeys : keyup(k)
    \/ \E b \in BOOLEAN : setMobileAccelerate(b, MaxInputsHeld)
    \/ onJoystickStart(MaxInputsHeld)
    \/ \E d \in JoystickOffsets : onJoystickMove(d[1], d[2])
    \/ onJoystickEnd
    \/ animate(PhysicsOutcomes)

Spec == Init /\ [][Next]_vars

(***************************************************************************)
(* SpecDrive: the program while the car stays upright, all controls used.  *)
(***************************************************************************)
\* knob offsets while driving: those of JoystickOffsets, and 15 px to the
\* right, direction (0.3, 0), on the steering threshold
DriveJoystickOffsets == JoystickOffsets \cup { <<15, 0>> }

NextDrive ==
    \/ loadCar
    \/ \E k \in PressedKeys : keydown(k, MaxDriveInputs)
    \/ \E k \in PressedKeys : keyup(k)
    \/ \E b \in BOOLEAN : setMobileAccelerate(b, MaxDriveInputs)
    \/ \E b \in BOOLEAN : setMobileBrake(b, MaxDriveInputs)
    \/ onJoystickStart(MaxDriveInputs)
    \/ \E d \in DriveJoystickOffsets : onJoystickMove(d[1], d[2])
    \/ onJoystickEnd
    \/ animate(UprightOutcomes)

SpecDrive == Init /\ [][NextDrive]_vars

(***************************************************************************)
(* Scene: pointer, wheel and touch listeners of the camera.  Scene_X is    *)
(* the handler X on the fields of Scene; X is the handler with the         *)
(* CameraController left alone.                                            *)
(***************************************************************************)
\* screen points (clientX, clientY) the pointer or the first finger can be at
PointerPoints == { <<100, 300>> }

\* event.touches of a touchstart: one finger, or two
TouchStartLists == { <<p>> : p \in PointerPoints } \cup { <<p, <<160, 380>>>> : p \in PointerPoints }

\* event.touches of a touchend: the fingers still down
TouchEndLists == { <<>> } \cup { <<p>> : p \in PointerPoints }

\* Math.sqrt(dx * dx + dy * dy) between two touches
PinchDistance(t1, t2) == ISqrt((t2[1] - t1[1]) * (t2[1] - t1[1]) + (t2[2] - t1[2]) * (t2[2] - t1[2]))

\* Math.max(lo, Math.min(hi, v))
\* variant: the value is stored without Math.max / Math.min
Clamp_None(lo, hi, v) == v

Clamp(lo, hi, v) == Max(lo, Min(hi, v))

\* the zoom after a wheel event: cameraScrollZoom + deltaY * 0.003, clamped
ZoomWheeled(zoom, deltaY) == Clamp(ZoomMin, ZoomMax, zoom + deltaY * WheelGain)

\* the zoom after a pinch from distance `last` to `current`:
\* cameraScrollZoom - (current - last) * 0.005, clamped
ZoomPinched(zoom, last, current) == Clamp(ZoomMin, ZoomMax, zoom - (current - last) * PinchGain)

\* the pan offset after the pointer moved from `last` to `p`: the move rotated
\* by 45 degrees, times 0.02, added and clamped
PanMoved(pan, last, p) ==
    LET deltaX == p[1] - last[1]
        deltaY == p[2] - last[2]
        compensatedX == (deltaY - deltaX) * Cos45
        compensatedZ == (deltaY + deltaX) * Cos45
    IN  Pan(Clamp(-PanLimit, PanLimit, pan.x + TruncDiv(compensatedX * PanSensitivity, 10000)),
            Clamp(-PanLimit, PanLimit, pan.z + TruncDiv(compensatedZ * PanSensitivity, 10000)))

Scene_onMouseWheel(deltaY) ==
    /\ cameraScrollZoom' = ZoomWheeled(cameraScrollZoom, deltaY)
    /\ UNCHANGED <<isPanning, isDetached, isPinching, cameraPanOffset, lastCarPosition,
                   lastMouse, lastPinchDistance, lastCamera>>
    /\ UNCHANGED <<inputVars, vehicleVars, serviceVars>>

Scene_onMouseDown(button, p) ==
    /\ IF button = 0
       THEN /\ isPanning' = TRUE
            /\ isDetached' = TRUE
            /\ lastMouse' = p
       ELSE UNCHANGED <<isPanning, isDetached, lastMouse>>
    /\ UNCHANGED <<isPinching, cameraPanOffset, cameraScrollZoom, lastCarPosition,
                   lastPinchDistance, lastCamera>>
    /\ UNCHANGED <<inputVars, vehicleVars, serviceVars>>

\* this.joystickCenter: the centre of the joystick container on the screen
joystickCenter == <<88, 284>>

\* variant: onMouseMove pans whether or not a drag is in progress
Scene_onMouseMove_Always(p) ==
    /\ cameraPanOffset' = PanMoved(cameraPanOffset, lastMouse, p)
    /\ lastMouse' = p
    /\ IF isMobile /\ joystickActive
       THEN joystickDirection' = JoystickDirectionOf(p[1] - joystickCenter[1], p[2] - joystickCenter[2])
       ELSE UNCHANGED joystickDirection
    /\ UNCHANGED <<isPanning, isDetached, isPinching, cameraScrollZoom, lastCarPosition,
                   lastPinchDistance, lastCamera>>
    /\ UNCHANGED <<sceneKeys, vehicleKeys, isMobile, mobileAccelerate, mobileBrake,
                   joystickActive, vehicleVars, serviceVars>>

\* a mousemove reaches Scene.onMouseMove (window) and, with the mobile
\* controls installed, onJoystickMove (document)
Scene_onMouseMove(p) ==
    /\ IF isPanning
       THEN /\ cameraPanOffset' = PanMoved(cameraPanOffset, lastMouse, p)
            /\ lastMouse' = p
       ELSE UNCHANGED <<cameraPanOffset, lastMouse>>
    /\ IF isMobile /\ joystickActive
       THEN joystickDirection' = JoystickDirectionOf(p[1] - joystickCenter[1], p[2] - joystickCenter[2])
       ELSE UNCHANGED joystickDirection
    /\ UNCHANGED <<isPanning, isDetached, isPinching, cameraScrollZoom, lastCarPosition,
                   lastPinchDistance, lastCamera>>
    /\ UNCHANGED <<sceneKeys, vehicleKeys, isMobile, mobileAccelerate, mobileBrake,
                   joystickActive, vehicleVars, serviceVars>>

\* variant: releasing the left button also re-attaches the camera
Scene_onMouseUp_Reattaches(button) ==
    /\ isPanning' = IF button = 0 THEN FALSE ELSE isPanning
    /\ isDetached' = IF button = 0 THEN FALSE ELSE isDetached
    /\ IF isMobile
       THEN /\ joystickActive' = FALSE
            /\ joystickDirection' = [x |-> 0, y |-> 0]
       ELSE UNCHANGED <<joystickActive, joystickDirection>>
    /\ UNCHANGED <<isPinching, cameraPanOffset, cameraScrollZoom, lastCarPosition,
                   lastMouse, lastPinchDistance, lastCamera>>
    /\ UNCHANGED <<sceneKeys, vehicleKeys, isMobile, mobileAccelerate, mobileBrake, vehicleVars, serviceVars>>

\* a mouseup reaches Scene.onMouseUp (window) and, with the mobile controls
\* installed, onJoystickEnd (document)
Scene_onMouseUp(button) ==
    /\ isPanning' = IF button = 0 THEN FALSE ELSE isPanning
    /\ IF isMobile
       THEN /\ joystickActive' = FALSE
            /\ joystickDirection' = [x |-> 0, y |-> 0]
       ELSE UNCHANGED <<joystickActive, joystickDirection>>
    /\ UNCHANGED <<isDetached, isPinching, cameraPanOffset, cameraScrollZoom, lastCarPosition,
                   lastMouse, lastPinchDistance, lastCamera>>
    /\ UNCHANGED <<sceneKeys, vehicleKeys, isMobile, mobileAccelerate, mobileBrake, vehicleVars, serviceVars>>

\* variant: the two-finger branch detaches the camera as the one-finger one does
Scene_onTouchStart_PinchDetaches(touches) ==
    /\ IF Len(touches) = 1
       THEN /\ isPanning' = TRUE
            /\ isDetached' = TRUE
            /\ isPinching' = FALSE
            /\ lastMouse' = touches[1]
            /\ UNCHANGED lastPinchDistance
       ELSE IF Len(touches) = 2
       THEN /\ isPinching' = TRUE
            /\ isPanning' = FALSE
            /\ isDetached' = TRUE
            /\ lastPinchDistance' = PinchDistance(touches[1], touches[2])
            /\ UNCHANGED lastMouse
       ELSE UNCHANGED <<isPanning, isDetached, isPinching, lastMouse, lastPinchDistance>>
    /\ UNCHANGED <<cameraPanOffset, cameraScrollZoom, lastCarPosition, lastCamera>>
    /\ UNCHANGED <<inputVars, vehicleVars, serviceVars>>

Scene_onTouchStart(touches) ==
    /\ IF Len(touches) = 1
       THEN /\ isPanning' = TRUE
            /\ isDetached' = TRUE
            /\ isPinching' = FALSE
            /\ lastMouse' = touches[1]
            /\ UNCHANGED lastPinchDistance
       ELSE IF Len(touches) = 2
       THEN /\ isPinching' = TRUE
            /\ isPanning' = FALSE
            /\ lastPinchDistance' = PinchDistance(touches[1], touches[2])
            /\ UNCHANGED <<isDetached, lastMouse>>
       ELSE UNCHANGED <<isPanning, isDetached, isPinching, lastMouse, lastPinchDistance>>
    /\ UNCHANGED <<cameraPanOffset, cameraScrollZoom, lastCarPosition, lastCamera>>
    /\ UNCHANGED <<inputVars, vehicleVars, serviceVars>>

Scene_onTouchMove(touches) ==
    /\ IF Len(touches) = 1 /\ isPanning /\ ~isPinching
       THEN /\ cameraPanOffset' = PanMoved(cameraPanOffset, lastMouse, touches[1])
            /\ lastMouse' = touches[1]
            /\ UNCHANGED <<cameraScrollZoom, lastPinchDistance>>
       ELSE IF Len(touches) = 2 /\ isPinching
       THEN /\ cameraScrollZoom' =
                  IF lastPinchDistance > 0
                  THEN ZoomPinched(cameraScrollZoom, lastPinchDistance,
                                   PinchDistance(touches[1], touches[2]))
                  ELSE cameraScrollZoom
            /\ lastPinchDistance' = PinchDistance(touches[1], touches[2])
            /\ UNCHANGED <<cameraPanOffset, lastMouse>>
       ELSE UNCHANGED <<cameraPanOffset, lastMouse, cameraScrollZoom, lastPinchDistance>>
    /\ UNCHANGED <<isPanning, isDetached, isPinching, lastCarPosition, lastCamera>>
    /\ UNCHANGED <<inputVars, vehicleVars, serviceVars>>

Scene_onTouchEnd(touches) ==
    /\ IF Len(touches) = 0
       THEN /\ isPanning' = FALSE
            /\ isPinching' = FALSE
            /\ lastPinchDistance' = 0
            /\ UNCHANGED lastMouse
       ELSE IF Len(touches) = 1
       THEN /\ isPinching' = FALSE
            /\ lastPinchDistance' = 0
            /\ lastMouse' = touches[1]
            /\ UNCHANGED isPanning
       ELSE UNCHANGED <<isPanning, isPinching, lastMouse, lastPinchDistance>>
    /\ UNCHANGED <<isDetached, cameraPanOffset, cameraScrollZoom, lastCarPosition, lastCamera>>
    /\ UNCHANGED <<inputVars, vehicleVars, serviceVars>>

onMouseDown(button, p) == Scene_onMouseDown(button, p) /\ UNCHANGED cameraController

onMouseUp(button) == Scene_onMouseUp(button) /\ UNCHANGED cameraController

onTouchStart(touches) == Scene_onTouchStart(touches) /\ UNCHANGED cameraController

onTouchEnd(touches) == Scene_onTouchEnd(touches) /\ UNCHANGED cameraController

(***************************************************************************)
(* CameraController: update and its pointer and touch listeners.  The      *)
(* class is not instantiated by Scene; its methods are driven here with    *)
(* arguments drawn from small sets.                                        *)
(***************************************************************************)
\* isUserDriving(keys)
isUserDriving(keys) ==
    \/ "w" \in keys \/ "arrowup" \in keys
    \/ "s" \in keys \/ "arrowdown" \in keys
    \/ "a" \in keys \/ "arrowleft" \in keys
    \/ "d" \in keys \/ "arrowright" \in keys

\* the fields update(delta, vehiclePosition, keys) leaves, delta = 1/60;
\* `present` is false for a null vehiclePosition
CameraController_updated(cc, present, vehiclePosition, keys) ==
    LET driving  == isUserDriving(keys)
        reattach == Reattach(driving, cc.isDetached)
        detached == IF reattach THEN FALSE ELSE cc.isDetached
        panning  == PanningAfterReattach(reattach, cc.isPanning)
        lastPos  == IF ~detached /\ DistSq(vehiclePosition, cc.lastCarPosition)
                                     > CarMoveThreshold * CarMoveThreshold
                    THEN vehiclePosition ELSE cc.lastCarPosition
        pan      == IF ShouldRelaxPan(detached, panning) THEN RelaxPan(cc.cameraPanOffset, 1)
                    ELSE cc.cameraPanOffset
    IN  IF ~present THEN cc
        ELSE [ isPanning |-> panning, isDetached |-> detached, cameraPanOffset |-> pan,
               cameraScrollZoom |-> cc.cameraScrollZoom,
               lastCarPosition |-> lastPos, lastMouse |-> cc.lastMouse,
               lastUpdate |-> [called |-> TRUE, isDriving |-> driving,
                               wasDetached |-> cc.isDetached] ]

\* the arguments update is called with
CameraTargets == { SpawnBody.position }

\* the fields of a CameraController after each of its listeners; the limits
\* and the sensitivity of its config are those of CONTROL_CONFIG
CameraController_wheeled(cc, deltaY) ==
    [cc EXCEPT !.cameraScrollZoom = ZoomWheeled(cc.cameraScrollZoom, deltaY)]

CameraController_mouseDowned(cc, button, p) ==
    IF button = 0
    THEN [cc EXCEPT !.isPanning = TRUE, !.isDetached = TRUE, !.lastMouse = p]
    ELSE cc

\* handlePanMovement(clientX, clientY)
handlePanMovement(cc, p) ==
    [cc EXCEPT !.cameraPanOffset = PanMoved(cc.cameraPanOffset, cc.lastMouse, p),
               !.lastMouse = p]

CameraController_mouseMoved(cc, p) == IF cc.isPanning THEN handlePanMovement(cc, p) ELSE cc

CameraController_mouseUpped(cc, button) ==
    IF button = 0 THEN [cc EXCEPT !.isPanning = FALSE] ELSE cc

CameraController_touchStarted(cc, touches) ==
    IF Len(touches) = 1
    THEN [cc EXCEPT !.isPanning = TRUE, !.isDetached = TRUE, !.lastMouse = touches[1]]
    ELSE cc

CameraController_touchMoved(cc, touches) ==
    IF cc.isPanning /\ Len(touches) = 1 THEN handlePanMovement(cc, touches[1]) ELSE cc

CameraController_touchEnded(cc, touches) ==
    IF Len(touches) = 0 THEN [cc EXCEPT !.isPanning = FALSE] ELSE cc

\* variant: the pan offset is not cleared
resetToVehicle_KeepsPan(cc) == [cc EXCEPT !.isDetached = FALSE, !.isPanning = FALSE]

\* resetToVehicle()
resetToVehicle(cc) ==
    [cc EXCEPT !.isDetached = FALSE, !.isPanning = FALSE, !.cameraPanOffset = Pan(0, 0)]

\* the fields of Scene left alone by a method of the CameraController
SceneUntouched ==
    /\ UNCHANGED <<isPanning, isDetached, isPinching, cameraPanOffset, cameraScrollZoom,
                   lastCarPosition, lastMouse, lastPinchDistance, lastCamera>>
    /\ UNCHANGED <<inputVars, vehicleVars, serviceVars>>

CameraController_update(present, vehiclePosition, keys) ==
    /\ cameraController' = CameraController_updated(cameraController, present, vehiclePosition, keys)
    /\ SceneUntouched

CameraController_onMouseDown(button, p) ==
    /\ cameraController' = CameraController_mouseDowned(cameraController, button, p)
    /\ SceneUntouched

CameraController_onMouseUp(button) ==
    /\ cameraController' = CameraController_mouseUpped(cameraController, button)
    /\ SceneUntouched

CameraController_onTouchStart(touches) ==
    /\ cameraController' = CameraController_touchStarted(cameraController, touches)
    /\ SceneUntouched

CameraController_onTouchEnd(touches) ==
    /\ cameraController' = CameraController_touchEnded(cameraController, touches)
    /\ SceneUntouched

CameraController_resetToVehicle ==
    /\ cameraController' = resetToVehicle(cameraController)
    /\ SceneUntouched

(***************************************************************************)
(* SpecCamera: the program with the camera dragged, the car upright and    *)
(* driven by the W key or the joystick, and a CameraController driven      *)
(* beside it.                                                              *)
(***************************************************************************)
CameraKeys == {"w"}

\* where the knob is dragged: a fifth of the way to the right, direction
\* (0.2, 0), between the two thresholds 0.1 and 0.3
CameraJoystickOffsets == { <<10, 0>> }

\* the car parked at the spawn point or driving away from it
CameraOutcomes ==
    { SpawnBody, Body(Vec(3000, 800, 4000), YawQuat, Vec(300, 0, -400), Vec(0, 20, 0)) }

NextCamera ==
    \/ loadCar
    \/ \E k \in CameraKeys : keydown(k, MaxCameraInputs)
    \/ \E k \in CameraKeys : keyup(k)
    \/ onJoystickStart(MaxCameraInputs)
    \/ \E d \in CameraJoystickOffsets : onJoystickMove(d[1], d[2])
    \/ onJoystickEnd
    \/ \E b \in {0, 2}, p \in PointerPoints : onMouseDown(b, p)
    \/ \E b \in {0, 2} : onMouseUp(b)
    \/ \E t \in TouchStartLists : onTouchStart(t)
    \/ \E t \in TouchEndLists : onTouchEnd(t)
    \/ animate(CameraOutcomes)
    \/ \E present \in BOOLEAN, pos \in CameraTargets, keys \in SUBSET CameraKeys :
           CameraController_update(present, pos, keys)
    \/ \E b \in {0, 2}, p \in PointerPoints : CameraController_onMouseDown(b, p)
    \/ \E b \in {0, 2} : CameraController_onMouseUp(b)
    \/ \E t \in TouchStartLists : CameraController_onTouchStart(t)
    \/ \E t \in TouchEndLists : CameraController_onTouchEnd(t)

SpecCamera == Init /\ [][NextCamera]_vars

(***************************************************************************)
(* SpecScenario: the test scenarios of the recovery machine.  The car is   *)
(* loaded and rests upright at the spawn point with no input; then one     *)
(* physics step may overturn it, the accelerate control is asserted (the   *)
(* W key, or the mobile accelerate button) and never released, and the     *)
(* physics leaves the chassis where update left it.                        *)
(***************************************************************************)
\* the chassis at rest where loadCar put it
RestOutcomes == { SpawnBody }

\* the overturned chassis of the scenario: rotated up vector y = -0.9
OverturnedBody == Body(Vec(3000, 500, 4000), UpsideDownQuat, ZeroVec, ZeroVec)

\* the largest recoveryTimer the scenario lets an update reach
ScenarioCap == [hi |-> MaxScenarioTicks * Delta.hi, lo |-> 0]

\* no control is asserted
NoInput ==
    /\ sceneKeys = {} /\ vehicleKeys = {}
    /\ ~mobileAccelerate /\ ~mobileBrake
    /\ ~joystickActive /\ joystickDirection = [x |-> 0, y |-> 0]

\* the chassis has been overturned
Overturned == vehicle /\ isCarUpsideDown(chassisBody.quaternion)

\* a frame at rest, zero input
idleFrame == vehicle /\ NoInput /\ ~Overturned /\ \E o \in RestOutcomes : Frame(o, ScenarioCap)

\* the frame in which the physics overturns the car, still with zero input
overturnFrame == vehicle /\ NoInput /\ ~Overturned /\ Frame(OverturnedBody, ScenarioCap)

\* accelerate is pressed on the overturned car
pressAccelerate ==
    /\ Overturned /\ NoInput
    /\ \/ keydown("w", 1)
       \/ setMobileAccelerate(TRUE, 1)

\* a frame with accelerate held and the physics at a standstill
heldFrame == Overturned /\ ~NoInput /\ Frame(chassisBody, ScenarioCap)

NextScenario ==
    \/ loadCar
    \/ idleFrame
    \/ overturnFrame
    \/ pressAccelerate
    \/ heldFrame

SpecScenario ==
    /\ Init
    /\ [][NextScenario]_vars
    /\ WF_vars(loadCar) /\ WF_vars(pressAccelerate) /\ WF_vars(heldFrame)

(***************************************************************************)
(* Properties of the recovery machine.                                     *)
(***************************************************************************)
\* the accelerate control is asserted, by key or by the mobile button
AccelerateHeld == "w" \in vehicleKeys \/ "arrowup" \in vehicleKeys \/ (isMobile /\ mobileAccelerate)

\* the chassis is within 0.1 of the recorded spawn position
NearSpawn == DistSq(chassisBody.position, originalPosition) < PosTolerance * PosTolerance

\* the recovery is running and has brought the chassis there
RecoveredNearSpawn == isRecovering /\ NearSpawn

\* C1 (as stated): once the chassis is upside down (up vector y = -0.9) and
\* accelerate is held, with the input never changing, update eventually makes
\* isRecovering true and later brings the chassis position within 0.1 of the
\* recorded spawn position.
C1_RecoversToSpawn == (Overturned /\ AccelerateHeld) ~> RecoveredNearSpawn

\* the same for the W key alone, which the recovery machine does see
C1_KeyboardRecoversToSpawn == (Overturned /\ "w" \in vehicleKeys) ~> RecoveredNearSpawn

\* C2: recovery never activates without input: at the end of an update call in
\* which hasInput is false, whatever the chassis orientation, isRecovering is
\* false and startRecovery has not been called.
C2_NoRecoveryWithoutInput ==
    (lastUpdate.called /\ ~lastUpdate.hasInput) => (~isRecovering /\ ~lastUpdate.startRecovery)

\* the fault holds, a recovery was running, and the input has been released
C2_Witness ==
    lastUpdate.called /\ ~lastUpdate.hasInput /\ lastUpdate.fault /\ lastUpdate.wasRecovering

\* C3: while the fault holds with input asserted, isRecovering is false on every
\* tick whose accumulated timer is below recoveryDelay and true from the first
\* tick whose timer is >= recoveryDelay; startRecovery is called on exactly that
\* first tick.
C3_StartsAtDelay ==
    (lastUpdate.called /\ lastUpdate.fault /\ lastUpdate.hasInput) =>
        /\ isRecovering <=> FGeq(recoveryTimer, recoveryDelay)
        /\ lastUpdate.startRecovery <=> (isRecovering /\ ~lastUpdate.wasRecovering)
        /\ lastUpdate.startRecovery => ~FGeq(recoveryTimer, FAdd(recoveryDelay, Delta))

\* the tick on which the timer first reaches recoveryDelay
C3_Witness ==
    /\ lastUpdate.called /\ lastUpdate.fault /\ lastUpdate.hasInput
    /\ lastUpdate.startRecovery /\ isRecovering /\ FGeq(recoveryTimer, recoveryDelay)

\* C4: hard reset: at the end of an update tick on which the fault is clear or
\* hasInput is false, recoveryTimer is 0 and isRecovering is false whatever they
\* were, and the chassis is as the physics step left it.
C4_HardReset ==
    (lastUpdate.called /\ ~(lastUpdate.fault /\ lastUpdate.hasInput)) =>
        /\ recoveryTimer = FZero
        /\ ~isRecovering
        /\ ~lastUpdate.performRecovery
        /\ chassisBody = lastUpdate.physicsBody

\* a recovery motion was under way when the fault cleared
C4_Witness ==
    lastUpdate.called /\ lastUpdate.wasRecovering /\ ~lastUpdate.fault /\ lastUpdate.hasInput

\* some directional control is asserted in the arguments of update: a key, or
\* the mobile accelerate or brake, or the steer axis beyond 0.3
AnyControlAsserted(keys, mc) ==
    \/ keys \cap DrivingKeys # {}
    \/ mc.defined /\ (mc.accelerate \/ mc.brake \/ Abs(mc.steerX) > SteerThreshold)

\* C5 (as stated): hasInput of the recovery machine is true whenever any
\* directional control is asserted on the tick, keyboard or mobile/analog.
C5_HasInputCoversMobile ==
    lastUpdate.called => (lastUpdate.hasInput <=> AnyControlAsserted(lastUpdate.keys, lastUpdate.mc))

\* C5 (second half, as stated): an upside-down chassis with mobile accelerate
\* held eventually enters Recovering.
C5_MobileRecovers == (Overturned /\ isMobile /\ mobileAccelerate) ~> isRecovering

(***************************************************************************)
(* Properties of the force, steering and brake commands.                   *)
(***************************************************************************)
\* the accelerate input of an update call: W, arrow up or the mobile button
AccelerateAsserted(keys, mc) ==
    "w" \in keys \/ "arrowup" \in keys \/ (mc.defined /\ mc.accelerate)

\* the brake/reverse input of an update call: S, arrow down or the mobile button
ReverseAsserted(keys, mc) ==
    "s" \in keys \/ "arrowdown" \in keys \/ (mc.defined /\ mc.brake)

\* C6: on every update tick the engine force applied to each of the four
\* wheels is one of -maxForce, 0, +maxForce.
C6_EngineForceThreeValued ==
    lastUpdate.called => \A i \in Wheels : wheelInfos[i].engineForce \in {-maxForce, 0, maxForce}

\* an update applied the forward force while the joystick was pushed on its y axis
C6_Witness ==
    /\ lastUpdate.called /\ lastUpdate.mc.steerY # 0
    /\ \A i \in Wheels : wheelInfos[i].engineForce = 0

\* C7: speed governor: on a tick where the speed read by update exceeds maxSpeed
\* the applied engine force is never -maxForce, whatever the accelerate input,
\* and brake/reverse input on that tick still yields +maxForce.
C7_SpeedGovernor ==
    (lastUpdate.called /\ isOverMaxSpeed(lastUpdate.speedSq)) =>
        \A i \in Wheels :
            /\ wheelInfos[i].engineForce # -maxForce
            /\ ReverseAsserted(lastUpdate.keys, lastUpdate.mc) => wheelInfos[i].engineForce = maxForce

\* over the limit with accelerate asserted and no reverse: the force is withheld
C7_Witness ==
    /\ lastUpdate.called /\ isOverMaxSpeed(lastUpdate.speedSq)
    /\ AccelerateAsserted(lastUpdate.keys, lastUpdate.mc)
    /\ ~ReverseAsserted(lastUpdate.keys, lastUpdate.mc)
    /\ wheelInfos[0].engineForce = 0

\* over the limit with reverse asserted
C7_WitnessReverse ==
    /\ lastUpdate.called /\ isOverMaxSpeed(lastUpdate.speedSq)
    /\ ReverseAsserted(lastUpdate.keys, lastUpdate.mc)
    /\ wheelInfos[0].engineForce = maxForce

\* C8 (as stated): on every update tick on which accelerate or brake/reverse
\* input is active, the brake set on all four wheels is 0.
C8_NoBrakeWhileInput ==
    (lastUpdate.called /\ (AccelerateAsserted(lastUpdate.keys, lastUpdate.mc)
                           \/ ReverseAsserted(lastUpdate.keys, lastUpdate.mc))) =>
        \A i \in Wheels : wheelInfos[i].brake = 0

\* C8 (amended): the brake set on all four wheels is 0 on every update tick on
\* which brake/reverse input is active, or accelerate input is active and the
\* speed does not exceed maxSpeed (that is, whenever the applied engine force is
\* not 0); with only accelerate active above maxSpeed the engine force is 0 and
\* the smooth brake min(brakeForce * brakeSmoothness, speed * 50) is set.
C8_NoBrakeWhileForce ==
    lastUpdate.called =>
        \A i \in Wheels :
            /\ (ReverseAsserted(lastUpdate.keys, lastUpdate.mc)
                \/ (AccelerateAsserted(lastUpdate.keys, lastUpdate.mc)
                    /\ ~isOverMaxSpeed(lastUpdate.speedSq)))
               => (wheelInfos[i].engineForce # 0 /\ wheelInfos[i].brake = 0)
            /\ (AccelerateAsserted(lastUpdate.keys, lastUpdate.mc)
                /\ ~ReverseAsserted(lastUpdate.keys, lastUpdate.mc)
                /\ isOverMaxSpeed(lastUpdate.speedSq))
               => (wheelInfos[i].engineForce = 0
                   /\ wheelInfos[i].brake = Min(brakeForce * brakeSmoothness * 10,
                                                ISqrt(lastUpdate.speedSq) * 50))

\* accelerate held on a moving car below the limit: force applied, no brake
C8_Witness ==
    /\ lastUpdate.called /\ AccelerateAsserted(lastUpdate.keys, lastUpdate.mc)
    /\ lastUpdate.speedSq > 0 /\ ~isOverMaxSpeed(lastUpdate.speedSq)
    /\ \A i \in Wheels : wheelInfos[i].engineForce = -maxForce /\ wheelInfos[i].brake = 0

\* C9: chassis upright at rest at the spawn point and update called with zero
\* input, for any number of ticks: isRecovering is false and recoveryTimer is 0
\* after every one of them.
C9_IdleStaysNormal ==
    (vehicle /\ ~Overturned /\ NoInput) => (~isRecovering /\ recoveryTimer = FZero)

\* an update has run on the resting chassis with zero input
C9_Witness ==
    /\ lastUpdate.called /\ lastUpdate.keys = {} /\ ~AnyControlAsserted(lastUpdate.keys, lastUpdate.mc)
    /\ lastUpdate.physicsBody = SpawnBody /\ chassisBody = SpawnBody
    /\ ~isRecovering /\ recoveryTimer = FZero

(***************************************************************************)
(* Properties of the chase camera.                                         *)
(***************************************************************************)
\* C10: driving wins over manual camera control: at the end of a camera update
\* that detected a driving input while isDetached was true, isDetached and
\* isPanning are both false, in Scene.updateCamera and in
\* CameraController.update alike; no release of the drag is needed.
\* a step in which Scene.updateCamera runs
SceneCameraStep == loadCar \/ (vehicle /\ \E o \in CameraOutcomes : Frame(o, TimerCap))

SceneDrivingReattaches ==
    (isDriving /\ isDetached /\ SceneCameraStep) => (~isDetached' /\ ~isPanning')

ControllerDrivingReattaches ==
    \A pos \in CameraTargets, keys \in SUBSET CameraKeys :
        (cameraController.isDetached /\ isUserDriving(keys)
            /\ CameraController_update(TRUE, pos, keys))
        => (~cameraController'.isDetached /\ ~cameraController'.isPanning)

C10_DrivingReattaches == [][SceneDrivingReattaches /\ ControllerDrivingReattaches]_vars

\* both cameras have just been re-attached by a driving input, Scene's with the
\* drag still held when its update ran
C10_Witness ==
    /\ lastCamera.called /\ lastCamera.isDriving /\ lastCamera.wasDetached
    /\ lastCamera.wasPanning /\ lastCamera.reattached
    /\ ~isDetached /\ ~isPanning
    /\ cameraController.lastUpdate.called /\ cameraController.lastUpdate.isDriving
    /\ cameraController.lastUpdate.wasDetached
    /\ ~cameraController.isDetached /\ ~cameraController.isPanning

(***************************************************************************)
(* SpecGesture: the camera gestures.  The wheel, pointer and touch events  *)
(* of the canvas are delivered to the listeners of Scene and to those of a *)
(* CameraController whose initControls was given the same canvas; each     *)
(* frame runs Scene.animate and the controller's update with the chassis   *)
(* position and Scene.keys.  No driving control is touched.                *)
(***************************************************************************)
\* event.deltaY of a wheel event: two notches up, and a very large scroll down
WheelDeltas == { -200, 100000 }

\* where the pointer or the finger moves to: 1200 px to the right of the
\* press, which pans x down and z up by 16.97 and so reaches both limits on
\* the second drag
MovePoints == { <<1300, 300>> }

\* event.touches of a touchmove: one finger, or two close together or far apart
TouchMoveLists ==
    { <<p>> : p \in MovePoints } \cup { <<<<100, 300>>, <<160, 380>>>>, <<<<100, 300>>, <<1300, 1900>>>> }

wheel(deltaY) ==
    /\ Scene_onMouseWheel(deltaY)
    /\ cameraController' = CameraController_wheeled(cameraController, deltaY)

mousedown(button, p) ==
    /\ Scene_onMouseDown(button, p)
    /\ cameraController' = CameraController_mouseDowned(cameraController, button, p)

mousemove(p) ==
    /\ Scene_onMouseMove(p)
    /\ cameraController' = CameraController_mouseMoved(cameraController, p)

mouseup(button) ==
    /\ Scene_onMouseUp(button)
    /\ cameraController' = CameraController_mouseUpped(cameraController, button)

touchstart(touches) ==
    /\ Scene_onTouchStart(touches)
    /\ cameraController' = CameraController_touchStarted(cameraController, touches)

touchmove(touches) ==
    /\ Scene_onTouchMove(touches)
    /\ cameraController' = CameraController_touchMoved(cameraController, touches)

touchend(touches) ==
    /\ Scene_onTouchEnd(touches)
    /\ cameraController' = CameraController_touchEnded(cameraController, touches)

\* a frame of Scene.animate followed by the controller's update; without a
\* vehicle there is no chassis position to pass
animateWithController(outcomes) ==
    IF vehicle
    THEN \E o \in outcomes :
            /\ SceneFrame(o, TimerCap)
            /\ cameraController' =
                   CameraController_updated(cameraController, TRUE, chassisBody'.position, sceneKeys)
    ELSE UNCHANGED vars

NextGesture ==
    \/ loadCar
    \/ \E d \in WheelDeltas : wheel(d)
    \/ \E b \in {0, 2}, p \in PointerPoints : mousedown(b, p)
    \/ \E p \in MovePoints : mousemove(p)
    \/ \E b \in {0, 2} : mouseup(b)
    \/ \E t \in TouchStartLists : touchstart(t)
    \/ \E t \in TouchMoveLists : touchmove(t)
    \/ \E t \in TouchEndLists : touchend(t)
    \/ CameraController_resetToVehicle
    \/ animateWithController(RestOutcomes)

SpecGesture == Init /\ [][NextGesture]_vars

InZoomLimits(zoom) == ZoomMin <= zoom /\ zoom <= ZoomMax

InPanLimits(pan) ==
    /\ -PanLimit <= pan.x /\ pan.x <= PanLimit
    /\ -PanLimit <= pan.z /\ pan.z <= PanLimit

\* C11: after any sequence of wheel, pinch and drag-move events the scroll
\* zoom lies in [0.8, 1.5] and both planar components of the pan offset lie
\* in [-20, 20], in Scene and in CameraController alike.
C11_ZoomAndPanClamped ==
    /\ InZoomLimits(cameraScrollZoom)
    /\ InPanLimits(cameraPanOffset)
    /\ InZoomLimits(cameraController.cameraScrollZoom)
    /\ InPanLimits(cameraController.cameraPanOffset)

\* a pinch took Scene's zoom to its lower limit after the wheel took the
\* controller's to its upper one, and drags took both pans to both limits
C11_Witness ==
    /\ cameraScrollZoom = ZoomMin
    /\ cameraController.cameraScrollZoom = ZoomMax
    /\ lastPinchDistance > 0
    /\ cameraPanOffset = Pan(-PanLimit, PanLimit)
    /\ cameraController.cameraPanOffset = Pan(-PanLimit, PanLimit)

(***************************************************************************)
(* SpecRelax: the end of the pan's relaxation.  A drag of 1200 px to the   *)
(* right left the offset at (-16.97056274847714, 16.970562748477143); the  *)
(* drag was released, "w" was pressed, and the camera re-attached.  After  *)
(* 14498 frames of relaxation the offset is (-38, 38) subnormal            *)
(* quanta, 2^-1074 each, and the next frames take it over 36, 34, 32, 30,  *)
(* 28, 27, ..., 10 to 9.  The specification starts in these states, the    *)
(* offset counted in quanta, and goes on with frames and key events.       *)
(***************************************************************************)
\* the magnitudes of both components, in quanta, at frames 14498 to 14522
RelaxTail == {38, 36, 34, 32, 30} \cup (9 .. 28)

RelaxKeys == {"w", "a"}

InitRelax ==
    /\ vehicle = TRUE
    /\ sceneKeys = {"w"}
    /\ vehicleKeys = {"w"}
    /\ isMobile \in BOOLEAN
    /\ mobileAccelerate = FALSE
    /\ mobileBrake = FALSE
    /\ joystickActive = FALSE
    /\ joystickDirection = [x |-> 0, y |-> 0]
    /\ chassisBody = SpawnBody
    /\ originalPosition = SpawnBody.position
    /\ originalQuaternion = SpawnBody.quaternion
    /\ recoveryTimer = FZero
    /\ isRecovering = FALSE
    /\ wheelInfos = [i \in Wheels |-> [ worldTransform |-> WheelWorldTransform(SpawnBody, i),
                                          engineForce |-> -maxForce, steering |-> 0, brake |-> 0 ]]
    /\ wheelsMeshes = [i \in Wheels |-> WheelWorldTransform(SpawnBody, i)]
    /\ carMesh = [position |-> SpawnBody.position, quaternion |-> SpawnBody.quaternion]
    /\ lastUpdate = update(updateRecovery(SpawnBody, FZero, FALSE, {"w"}), MobileControls).lastUpdate
    /\ isPanning = FALSE
    /\ isDetached = FALSE
    /\ isPinching = FALSE
    /\ cameraPanOffset \in {Pan(-n, n) : n \in RelaxTail}
    /\ cameraScrollZoom = 1000
    /\ lastCarPosition = SpawnBody.position
    /\ lastMouse \in MovePoints
    /\ lastPinchDistance = 0
    /\ lastCamera = updateCamera(SpawnBody.position, SpawnBody.position, 1).lastCamera
    /\ lastRender = Rendered(carMesh, lastCamera, lastCamera)
    /\ cameraController =
           [ isPanning |-> FALSE, isDetached |-> FALSE, cameraPanOffset |-> cameraPanOffset,
             cameraScrollZoom |-> 1000, lastCarPosition |-> SpawnBody.position,
             lastMouse |-> lastMouse,
             lastUpdate |-> [called |-> TRUE, isDriving |-> TRUE, wasDetached |-> FALSE] ]
    /\ mobileControlsService = NewMobileControlsService

NextRelax ==
    \/ \E k \in RelaxKeys : keydown(k, MaxDriveInputs)
    \/ \E k \in RelaxKeys : keyup(k)
    \/ animateWithController(RestOutcomes)

SpecRelax == InitRelax /\ [][NextRelax]_vars

\* a frame after which the camera is attached and no drag is active, so that
\* Scene.updateCamera and CameraController.update have relaxed the offset
RelaxTick ==
    /\ vehicle /\ ~isDetached' /\ ~isPanning'
    /\ ~cameraController'.isDetached /\ ~cameraController'.isPanning
    /\ animateWithController(RestOutcomes)

PanSq(pan) == pan.x * pan.x + pan.z * pan.z

\* component a became b: no further from zero, and not across it
TowardZero(a, b) == Abs(b) <= Abs(a) /\ a * b >= 0

\* a component of 10 quanta or more came strictly closer to zero
CloserWhenLarge(a, b) == Abs(a) >= 10 => Abs(b) < Abs(a)

PanRelaxed(pan, next) ==
    /\ TowardZero(pan.x, next.x) /\ TowardZero(pan.z, next.z)
    /\ CloserWhenLarge(pan.x, next.x) /\ CloserWhenLarge(pan.z, next.z)

\* C12 (as amended): while the camera is attached and no drag is active, an
\* update tick with dt = 1/60 never moves a component of panOffset away from
\* zero or across it, and brings every component of at least 10 quanta of
\* the grid strictly closer to zero; a component of 1 to 9 quanta stays.
C12_PanRelaxesAboveGrid ==
    [][ RelaxTick =>
            /\ PanRelaxed(cameraPanOffset, cameraPanOffset')
            /\ PanRelaxed(cameraController.cameraPanOffset, cameraController'.cameraPanOffset) ]_vars

\* C12 (as stated): each such tick strictly decreases the magnitude of a
\* non-zero panOffset.
C12_PanStrictlyDecreases ==
    [][ RelaxTick =>
            /\ cameraPanOffset # Pan(0, 0) => PanSq(cameraPanOffset') < PanSq(cameraPanOffset)
            /\ cameraController.cameraPanOffset # Pan(0, 0)
                   => PanSq(cameraController'.cameraPanOffset) < PanSq(cameraController.cameraPanOffset) ]_vars

\* a frame run with "w" and "a" held has relaxed both offsets to 20 quanta
C12_Witness ==
    /\ lastUpdate.called /\ lastUpdate.keys = {"w", "a"}
    /\ ~isDetached /\ ~isPanning
    /\ cameraPanOffset = Pan(-20, 20)
    /\ cameraController.cameraPanOffset = Pan(-20, 20)

\* a frame of SpecCamera in which Scene.updateCamera finds the camera detached
DetachedCameraFrame ==
    vehicle /\ isDetached /\ \E o \in CameraOutcomes : Frame(o, TimerCap)

\* C13 (as stated): the camera's driving detection counts exactly the
\* controls the vehicle treats as asserted (keys, mobile accelerate or brake,
\* the steer axis beyond 0.3): a detached camera is re-attached by a frame
\* exactly when one of them is asserted, so a deflection of at most 0.3 with
\* nothing else does not re-attach it.
C13_CameraCountsVehicleControls ==
    [][ DetachedCameraFrame =>
            (~isDetached' <=> AnyControlAsserted(sceneKeys, MobileControls)) ]_vars

\* C14: while the vehicle is missing (the car not yet loaded), the frames are
\* no-ops for the vehicle and the camera: update has issued no force, steer
\* or brake command and has not touched recoveryTimer, isRecovering, the
\* chassis or its proxy, and updateCamera has never run, whatever keys are
\* held and whatever the camera gestures have done.
C14_NoVehicleNoOp ==
    ~vehicle =>
        /\ lastUpdate = NoUpdate
        /\ wheelInfos = NoWheels
        /\ recoveryTimer = FZero /\ ~isRecovering
        /\ chassisBody = Body(ZeroVec, IdentityQuat, ZeroVec, ZeroVec)
        /\ carMesh = [position |-> ZeroVec, quaternion |-> IdentityQuat]
        /\ lastCamera = NoCamera
        /\ lastCarPosition = ZeroVec

\* before the car is loaded a key is held and a drag has detached the camera:
\* a frame that ran updateCamera would have re-attached it
C14_Witness == ~vehicle /\ "w" \in sceneKeys /\ isDetached /\ isPanning

\* C15: resetToVehicle() leaves isDetached = false, isPanning = false and
\* panOffset = (0, 0, 0) whatever the state before, leaves scrollZoom and
\* lastCarPosition as they were, and a second call changes nothing more.
C15_ResetToVehicle ==
    [][ CameraController_resetToVehicle =>
            /\ ~cameraController'.isDetached
            /\ ~cameraController'.isPanning
            /\ cameraController'.cameraPanOffset = Pan(0, 0)
            /\ cameraController'.cameraScrollZoom = cameraController.cameraScrollZoom
            /\ cameraController'.lastCarPosition = cameraController.lastCarPosition
            /\ resetToVehicle(cameraController') = cameraController' ]_vars

\* the controller was zoomed out to the limit, detached and panned by a drag
\* (as Scene, which still is), and then reset: without driving nothing else
\* re-attaches it
C15_Witness ==
    /\ ~cameraController.isDetached /\ ~cameraController.isPanning
    /\ cameraController.lastMouse \in MovePoints
    /\ cameraController.cameraPanOffset = Pan(0, 0)
    /\ cameraController.cameraScrollZoom = ZoomMax
    /\ cameraController.lastCarPosition = SpawnBody.position
    /\ isDetached /\ cameraPanOffset # Pan(0, 0)

\* C16: the headlights are driven toward the ON colour on exactly the update
\* ticks on which the applied engine force is -maxForce, and toward the OFF
\* colour on every other tick, also when accelerate is held and the speed
\* governor withholds the force.
C16_HeadlightsFollowForce ==
    lastUpdate.called =>
        /\ lastUpdate.headlightsOn <=> (\A i \in Wheels : wheelInfos[i].engineForce = -maxForce)
        /\ (AccelerateAsserted(lastUpdate.keys, lastUpdate.mc) /\ isOverMaxSpeed(lastUpdate.speedSq))
               => ~lastUpdate.headlightsOn

\* accelerate held over the speed limit, nothing else: the lights go toward OFF
C16_Witness ==
    /\ lastUpdate.called /\ isOverMaxSpeed(lastUpdate.speedSq)
    /\ AccelerateAsserted(lastUpdate.keys, lastUpdate.mc)
    /\ ~ReverseAsserted(lastUpdate.keys, lastUpdate.mc)
    /\ ~lastUpdate.headlightsOn

\* accelerate held below the limit: the lights go toward ON
C16_WitnessOn ==
    /\ lastUpdate.called /\ ~isOverMaxSpeed(lastUpdate.speedSq)
    /\ wheelInfos[0].engineForce = -maxForce
    /\ lastUpdate.headlightsOn

\* position and orientation of a body
PoseOf(body) == [position |-> body.position, quaternion |-> body.quaternion]

\* C17 (as amended): within one update call the recovery machine runs first,
\* before the speed read and before the copy to the visual chassis proxy, so
\* the pose and velocity a recovery override writes on tick n are those the
\* chassis proxy and the speed governor see on tick n itself.
C17_OverrideSeenSameTick ==
    (lastUpdate.called /\ lastUpdate.performRecovery) =>
        /\ carMesh = PoseOf(chassisBody)
        /\ lastUpdate.speedSq = LengthSq(chassisBody.velocity)

\* C17 (as stated): the recovery machine runs after the copy and after the
\* speed read, so on a tick with a recovery override the chassis proxy and
\* the speed governor have seen the chassis as the physics step left it.
C17_OverrideSeenNextTick ==
    (lastUpdate.called /\ lastUpdate.performRecovery) =>
        /\ carMesh = PoseOf(lastUpdate.physicsBody)
        /\ lastUpdate.speedSq = LengthSq(lastUpdate.physicsBody.velocity)

\* a recovery tick moved and slowed the overturned chassis, and the proxy and
\* the speed read show the moved, slowed chassis
C17_Witness ==
    /\ lastUpdate.called /\ lastUpdate.performRecovery
    /\ chassisBody.position # lastUpdate.physicsBody.position
    /\ carMesh.position = chassisBody.position
    /\ lastUpdate.speedSq < LengthSq(lastUpdate.physicsBody.velocity)

\* C18: on every update tick with a vehicle, the ticks on which recovery
\* overrides the chassis pose included, the chassis transform is copied onto
\* the visual chassis proxy and the world transform of each wheel onto its
\* visual proxy.
C18_ProxiesSynchronised ==
    lastUpdate.called =>
        /\ carMesh = PoseOf(chassisBody)
        /\ \A i \in Wheels : wheelsMeshes[i] = wheelInfos[i].worldTransform

\* a tick that went on with a recovery begun earlier: the chassis proxy has
\* the overridden pose and the wheel proxies the transforms of the overturned
\* chassis
C18_Witness ==
    /\ lastUpdate.called /\ lastUpdate.wasRecovering /\ lastUpdate.performRecovery
    /\ carMesh = PoseOf(chassisBody)
    /\ chassisBody.position # lastUpdate.physicsBody.position
    /\ \A i \in Wheels : wheelsMeshes[i] = WheelWorldTransform(lastUpdate.physicsBody, i)
    /\ wheelsMeshes[0].position.y < wheelsMeshes[1].position.y

\* the steer-left and steer-right controls of an update call: A / arrow left
\* or the axis below -0.3; D / arrow right or the axis above 0.3
LeftAsserted(keys, mc) ==
    "a" \in keys \/ "arrowleft" \in keys \/ (mc.defined /\ mc.steerX < -SteerThreshold)

RightAsserted(keys, mc) ==
    "d" \in keys \/ "arrowright" \in keys \/ (mc.defined /\ mc.steerX > SteerThreshold)

SteerKeys == {"a", "arrowleft", "d", "arrowright"}

\* C19: the steering value set on the front wheels is +maxSteer when only
\* steer-left is asserted, -maxSteer whenever steer-right is asserted (right
\* overrides left), 0 otherwise; the analog axis counts as left below -0.3,
\* as right above 0.3, and as neither when its magnitude is at most 0.3.
C19_SteerValue ==
    lastUpdate.called =>
        LET left  == LeftAsserted(lastUpdate.keys, lastUpdate.mc)
            right == RightAsserted(lastUpdate.keys, lastUpdate.mc)
            steer == wheelInfos[0].steering
        IN  /\ wheelInfos[1].steering = steer
            /\ (left /\ ~right) => steer = maxSteer
            /\ right => steer = -maxSteer
            /\ (~left /\ ~right) => steer = 0
            /\ (lastUpdate.keys \cap SteerKeys = {} /\ Abs(lastUpdate.mc.steerX) <= SteerThreshold)
                   => steer = 0

\* left and right asserted together: right wins
C19_Witness ==
    /\ lastUpdate.called
    /\ LeftAsserted(lastUpdate.keys, lastUpdate.mc)
    /\ RightAsserted(lastUpdate.keys, lastUpdate.mc)
    /\ wheelInfos[0].steering = -maxSteer

\* the axis exactly on the threshold: neither left nor right
C19_WitnessThreshold ==
    /\ lastUpdate.called /\ lastUpdate.mc.defined /\ lastUpdate.mc.steerX = SteerThreshold
    /\ lastUpdate.keys = {}
    /\ wheelInfos[0].steering = 0

\* the axis pushed fully left
C19_WitnessAnalogLeft ==
    /\ lastUpdate.called /\ lastUpdate.mc.defined /\ lastUpdate.mc.steerX < -SteerThreshold
    /\ lastUpdate.keys = {}
    /\ wheelInfos[0].steering = maxSteer

\* C20: update applies the same engineForce to all four wheels, indices 0 to
\* 3, sets steerValue on the wheels 0 and 1 only, and never writes the steering
\* of the wheels 2 and 3, which stays as the wheels were created, at 0.
C20_ForceOnAllSteerOnFront ==
    /\ lastUpdate.called =>
           /\ \A i \in Wheels : wheelInfos[i].engineForce = wheelInfos[0].engineForce
           /\ wheelInfos[0].steering = steerValueOf(lastUpdate.keys, lastUpdate.mc)
           /\ wheelInfos[1].steering = steerValueOf(lastUpdate.keys, lastUpdate.mc)
    /\ wheelInfos[2].steering = 0
    /\ wheelInfos[3].steering = 0

\* reversing with the steering at full lock: force on four wheels, steering on two
C20_Witness ==
    /\ lastUpdate.called
    /\ \A i \in Wheels : wheelInfos[i].engineForce = maxForce
    /\ wheelInfos[0].steering = maxSteer /\ wheelInfos[1].steering = maxSteer
    /\ wheelInfos[2].steering = 0 /\ wheelInfos[3].steering = 0

\* the upper limit of the smooth brake, brakeForce * brakeSmoothness, in 1/100
SmoothBrakeLimit == brakeForce * brakeSmoothness * 10

\* C21: on every tick with |engineForce| < 1 the brake set on each of the four
\* wheels equals min(brakeForce * brakeSmoothness, currentSpeed * 50); hence it
\* is 0 when the chassis is at rest and never exceeds brakeForce * brakeSmoothness.
C21_SmoothBrake ==
    (lastUpdate.called /\ \A i \in Wheels : Abs(wheelInfos[i].engineForce) < 1) =>
        \A i \in Wheels :
            /\ wheelInfos[i].brake <= SmoothBrakeLimit
            /\ wheelInfos[i].brake <= ISqrt(lastUpdate.speedSq) * 50
            /\ wheelInfos[i].brake \in {SmoothBrakeLimit, ISqrt(lastUpdate.speedSq) * 50}
            /\ (lastUpdate.speedSq = 0 => wheelInfos[i].brake = 0)

\* no engine force on a chassis fast enough for the limit to bind: the brake is the limit
C21_Witness ==
    /\ lastUpdate.called
    /\ ISqrt(lastUpdate.speedSq) * 50 > SmoothBrakeLimit
    /\ \A i \in Wheels : wheelInfos[i].engineForce = 0 /\ wheelInfos[i].brake = SmoothBrakeLimit

\* no engine force on a slowly moving chassis: the brake is proportional to the speed
C21_WitnessSlow ==
    /\ lastUpdate.called
    /\ lastUpdate.speedSq > 0 /\ ISqrt(lastUpdate.speedSq) * 50 < SmoothBrakeLimit
    /\ \A i \in Wheels : wheelInfos[i].engineForce = 0
                         /\ wheelInfos[i].brake = ISqrt(lastUpdate.speedSq) * 50

\* the completion branch of performRecovery is never taken by an update call:
\* the call is guarded by the fault condition (up vector y < 0.3), which no
\* unit quaternion with |dot| > 0.99 to the recorded identity orientation meets
CompletionUnreachable == ~lastUpdate.completed

(***************************************************************************)
(* SpecTurn: the program while the physics may leave the chassis with      *)
(* either of the two unit quaternions q and -q of an orientation (the      *)
(* integration of the angular velocity passes from one to the other in the *)
(* course of a full turn).                                                 *)
(***************************************************************************)
\* the other unit quaternion of the same rotation
Negated(q) == Quat(-q.x, -q.y, -q.z, -q.w)

\* resting 5 cm above the spawn point, upright, with either sign
TurnedBodies ==
    { Body(Vec(0, 6050, 0), IdentityQuat, ZeroVec, ZeroVec),
      Body(Vec(0, 6050, 0), Negated(IdentityQuat), ZeroVec, ZeroVec) }

TurnOutcomes ==
    TurnedBodies \cup PhysicsOutcomes
                 \cup { Body(b.position, Negated(b.quaternion), b.velocity, b.angularVelocity) :
                           b \in PhysicsOutcomes }

NextTurn ==
    \/ loadCar
    \/ \E k \in RecoveryKeys : keydown(k, MaxInputsHeld)
    \/ \E k \in RecoveryKeys : keyup(k)
    \/ animate(TurnOutcomes)

SpecTurn == Init /\ [][NextTurn]_vars

\* the completion test of performRecovery, taken on the pose the chassis has
CompletionTestHolds == RecoveryComplete(chassisBody.position, chassisBody.quaternion)

\* C23 (as stated): the rotation-completion test compares the signed dot product
\* with the recorded orientation to 0.99, so a chassis quaternion equal to the
\* negation of the recorded quaternion does not satisfy the completion test.
C23_NegatedFailsTest ==
    (lastUpdate.called /\ chassisBody.quaternion = Negated(originalQuaternion))
        => ~CompletionTestHolds

\* C23 (amended): the test compares the absolute value of the dot product to
\* 0.99, so a chassis quaternion and its negation give the same result, and the
\* negation of the recorded quaternion satisfies the rotation criterion (and,
\* within 0.1 of the recorded position, the completion test).
C23_NegatedPassesTest ==
    lastUpdate.called =>
        /\ CompletionTestHolds
             <=> RecoveryComplete(chassisBody.position, Negated(chassisBody.quaternion))
        /\ chassisBody.quaternion = Negated(originalQuaternion)
             => rotationDiff(chassisBody.quaternion, originalQuaternion) > RotThreshold
        /\ (chassisBody.quaternion = Negated(originalQuaternion)
            /\ DistSq(chassisBody.position, originalPosition) < PosTolerance * PosTolerance)
             => CompletionTestHolds

\* the chassis rests near the spawn point with the negated recorded quaternion
C23_Witness ==
    /\ lastUpdate.called
    /\ chassisBody.quaternion = Negated(originalQuaternion)
    /\ chassisBody.quaternion # originalQuaternion
    /\ CompletionTestHolds

\* v is u with each component multiplied by 0.95 (once), in the model's fixed point
ScaledOnce(u, v) ==
    /\ v.x = TruncDiv(95 * u.x, 100)
    /\ v.y = TruncDiv(95 * u.y, 100)
    /\ v.z = TruncDiv(95 * u.z, 100)

\* C24: on every tick on which the recovery override runs, each component of
\* the chassis linear velocity and of the angular velocity is multiplied by 0.95
\* exactly once (per axis, never set to zero); on ticks where isRecovering is
\* false the controller does not scale them.
C24_VelocityScaledOnce ==
    lastUpdate.called =>
        IF lastUpdate.performRecovery
        THEN /\ ScaledOnce(lastUpdate.physicsBody.velocity, chassisBody.velocity)
             /\ ScaledOnce(lastUpdate.physicsBody.angularVelocity, chassisBody.angularVelocity)
        ELSE /\ ~isRecovering
             /\ chassisBody.velocity = lastUpdate.physicsBody.velocity
             /\ chassisBody.angularVelocity = lastUpdate.physicsBody.angularVelocity

\* a recovery tick on a chassis falling at 1 m/s and rolling at 0.5 rad/s
C24_Witness ==
    /\ lastUpdate.called /\ lastUpdate.performRecovery
    /\ lastUpdate.physicsBody.velocity = Vec(0, -100, 0)
    /\ chassisBody.velocity = Vec(0, -95, 0)
    /\ lastUpdate.physicsBody.angularVelocity.z = 50
    /\ chassisBody.angularVelocity.z \in {47, 48}

\* a tick without recovery on a moving chassis: the velocities are left alone
C24_WitnessNormal ==
    /\ lastUpdate.called /\ ~lastUpdate.performRecovery
    /\ chassisBody.velocity = Vec(300, 0, -400)
    /\ chassisBody.angularVelocity = Vec(0, 20, 0)

\* C25: after spawn the controllers write the chassis position, orientation,
\* linear velocity or angular velocity directly only inside the recovery
\* override: on any update tick that ends with isRecovering false and did not
\* run performRecovery the frame leaves all four as the physics step produced
\* them, and the camera update never writes them (on every tick the chassis pose
\* at the end of the frame is the one update copied to the visual chassis).
C25_OnlyRecoveryWritesChassis ==
    lastUpdate.called =>
        /\ (~isRecovering /\ ~lastUpdate.performRecovery) => chassisBody = lastUpdate.physicsBody
        /\ lastCamera.called
        /\ chassisBody.position = carMesh.position
        /\ chassisBody.quaternion = carMesh.quaternion
        /\ chassisBody # lastUpdate.physicsBody => lastUpdate.performRecovery

\* an ordinary tick on a moving chassis, the camera following it
C25_Witness ==
    /\ lastUpdate.called /\ lastCamera.called
    /\ ~isRecovering /\ ~lastUpdate.performRecovery
    /\ lastUpdate.physicsBody = Body(Vec(3000, 800, 4000), YawQuat, Vec(300, 0, -400), Vec(0, 20, 0))
    /\ chassisBody = lastUpdate.physicsBody
    /\ lastCarPosition = chassisBody.position

\* a recovery tick: the override moved the chassis
C25_WitnessRecovery ==
    /\ lastUpdate.called /\ lastUpdate.performRecovery
    /\ chassisBody.position # lastUpdate.physicsBody.position
    /\ chassisBody.velocity # lastUpdate.physicsBody.velocity

\* C26: the recovery record (originalPosition, originalQuaternion) is captured
\* once at spawn in loadCar, before any physics step involving the chassis (it
\* is the spawn pose, and no update has run), and no sequence of update calls,
\* recoveries or input events ever changes it afterwards.
C26_RecordCapturedOnce ==
    [][ /\ (~vehicle /\ vehicle') =>
              /\ originalPosition' = Vec(0, 6000, 0)
              /\ originalQuaternion' = Quat(0, 0, 0, 1000)
              /\ originalPosition' = chassisBody'.position
              /\ originalQuaternion' = chassisBody'.quaternion
              /\ ~lastUpdate'.called
        /\ vehicle => /\ vehicle'
                      /\ originalPosition' = originalPosition
                      /\ originalQuaternion' = originalQuaternion ]_vars

\* a recovery has moved an overturned chassis towards the record, which is
\* still the spawn pose
C26_Witness ==
    /\ vehicle /\ lastUpdate.called /\ lastUpdate.performRecovery
    /\ chassisBody.position # lastUpdate.physicsBody.position
    /\ originalPosition = Vec(0, 6000, 0)
    /\ originalQuaternion = Quat(0, 0, 0, 1000)
    /\ chassisBody.quaternion # originalQuaternion

\* the fields of Scene that the camera gestures work on
SceneGestureFields ==
    <<isPanning, isDetached, isPinching, cameraPanOffset, cameraScrollZoom, lastCarPosition,
      lastMouse, lastPinchDistance>>

\* a left-button press or a touch start with one finger
DragPress ==
    \/ \E p \in PointerPoints : mousedown(0, p)
    \/ \E t \in TouchStartLists : Len(t) = 1 /\ touchstart(t)

\* the left button released, or the last finger lifted
DragRelease == mouseup(0) \/ touchend(<<>>)

\* a pointer move, or a touch move with one finger
DragMove ==
    \/ \E p \in MovePoints : mousemove(p)
    \/ \E t \in TouchMoveLists : Len(t) = 1 /\ touchmove(t)

\* C27: drag gesture: a left-button press or single-finger touch start sets
\* isPanning and isDetached to true; a release of that button or of the last
\* finger clears isPanning only and leaves isDetached and panOffset unchanged;
\* drag-move events received while isPanning is false change nothing.
C27_DragGesture ==
    [][ /\ DragPress => (isPanning' /\ isDetached')
        /\ DragRelease => /\ ~isPanning'
                          /\ isDetached' = isDetached
                          /\ cameraPanOffset' = cameraPanOffset
        /\ (~isPanning /\ DragMove) => UNCHANGED SceneGestureFields ]_vars

\* a drag was made and released: the offset it left is kept, the camera is
\* still detached, and nothing is panning
C27_Witness ==
    /\ ~isPanning /\ ~isPinching /\ isDetached
    /\ lastMouse \in MovePoints
    /\ cameraPanOffset # Pan(0, 0)

(***************************************************************************)
(* SpecLook: the camera while the car moves: drags with the mouse, the     *)
(* "w" key, and frames in which the car stays, creeps or drives away.      *)
(***************************************************************************)
\* the car 5 mm below the spawn point (inside the 0.01 hysteresis of it), or
\* driving away from it
LookOutcomes ==
    { Body(Vec(0, 5995, 0), IdentityQuat, ZeroVec, ZeroVec),
      Body(Vec(3000, 800, 4000), YawQuat, Vec(300, 0, -400), Vec(0, 20, 0)) }

\* where the pointer is dragged to: 1 px to the right of the press, which
\* pans x down and z up by 0.014
LookMovePoints == { <<101, 300>> }

\* the user drags only while the pan offset is below MaxLookPan / 1000
LookDragAllowed == Abs(cameraPanOffset.x) < MaxLookPan

NextLook ==
    \/ loadCar
    \/ \E k \in CameraKeys : keydown(k, MaxCameraInputs)
    \/ \E k \in CameraKeys : keyup(k)
    \/ \E p \in PointerPoints : mousedown(0, p)
    \/ \E p \in LookMovePoints : LookDragAllowed /\ mousemove(p)
    \/ mouseup(0)
    \/ animateWithController(LookOutcomes)

SpecLook == Init /\ [][NextLook]_vars

\* p + pan, the pan offset lying in the ground plane
PlusPan(p, pan) == Vec(p.x + pan.x, p.y, p.z + pan.z)

\* within the 0.01 hysteresis distance
WithinHysteresis(a, b) == DistSq(a, b) <= CarMoveThreshold * CarMoveThreshold

\* C28: while the camera is detached, update never changes lastCarPosition and
\* the look-at point is lastCarPosition + panOffset; while attached, the
\* look-at point is vehiclePosition + idealLookat and after each update
\* lastCarPosition is within the 0.01 hysteresis distance of the vehicle
\* position (the look-at point is that of Scene.updateCamera; lastCarPosition
\* is followed in Scene and in the CameraController alike).
C28_LookatAndTracking ==
    [][ (vehicle /\ sceneKeys' = sceneKeys /\ lastMouse' = lastMouse
                 /\ animateWithController(LookOutcomes)) =>
          /\ lastCamera'.called /\ cameraController'.lastUpdate.called
          /\ IF isDetached'
             THEN /\ lastCarPosition' = lastCarPosition
                  /\ lastCamera'.lookatPoint = PlusPan(lastCarPosition', cameraPanOffset')
             ELSE /\ lastCamera'.lookatPoint = chassisBody'.position
                  /\ WithinHysteresis(lastCarPosition', chassisBody'.position)
          /\ IF cameraController'.isDetached
             THEN cameraController'.lastCarPosition = cameraController.lastCarPosition
             ELSE WithinHysteresis(cameraController'.lastCarPosition, chassisBody'.position) ]_vars

\* detached and panned, the car has driven away: the camera still looks at
\* the place the car was at, moved by the pan offset
C28_Witness ==
    /\ lastCamera.called /\ isDetached /\ cameraPanOffset # Pan(0, 0)
    /\ ~WithinHysteresis(lastCarPosition, chassisBody.position)
    /\ lastCamera.lookatPoint = PlusPan(lastCarPosition, cameraPanOffset)
    /\ lastCamera.lookatPoint # chassisBody.position

\* attached, the car within the hysteresis distance of the tracked position,
\* which was not updated
C28_WitnessHysteresis ==
    /\ lastCamera.called /\ ~isDetached
    /\ lastCarPosition # chassisBody.position
    /\ WithinHysteresis(lastCarPosition, chassisBody.position)
    /\ lastCamera.lookatPoint = chassisBody.position

\* the camera was attached when the last updateCamera call placed its look-at point
AttachedAtUpdate == ~lastCamera.wasDetached \/ lastCamera.reattached

\* C29: every frame tick executes, strictly in this order and with no
\* input-event handler running in between, the physics world step, the vehicle
\* update, the camera update and the render call: update works on the chassis
\* the step of this tick left, the camera follows the chassis as update left it
\* (recovery override included), and the image shows the visual chassis and the
\* camera of this tick.
C29_FrameOrder ==
    lastUpdate.called =>
        /\ lastCamera.called /\ lastRender.drawn
        /\ ~lastUpdate.performRecovery => lastUpdate.physicsBody = chassisBody
        /\ carMesh = PoseOf(chassisBody)
        /\ AttachedAtUpdate =>
              /\ lastCamera.lookatPoint = chassisBody.position
              /\ WithinHysteresis(lastCarPosition, chassisBody.position)
        /\ lastRender.carMesh = carMesh
        /\ lastRender.lookatPoint = lastCamera.lookatPoint

\* a recovery tick with the camera attached: the override moved the chassis
\* after the step, the camera looks at where it ended, the image shows both
C29_Witness ==
    /\ lastUpdate.called /\ lastUpdate.performRecovery /\ AttachedAtUpdate
    /\ chassisBody.position # lastUpdate.physicsBody.position
    /\ lastCamera.lookatPoint = chassisBody.position
    /\ lastRender.drawn /\ lastRender.carMesh.position = chassisBody.position
    /\ lastRender.lookatPoint = chassisBody.position

\* C30: when accelerate and brake/reverse inputs are both asserted on the same
\* tick, the applied engine force is +maxForce (reverse wins) at any speed, and
\* the automatic brake is 0.
C30_ReverseWins ==
    (lastUpdate.called /\ AccelerateAsserted(lastUpdate.keys, lastUpdate.mc)
                       /\ ReverseAsserted(lastUpdate.keys, lastUpdate.mc)) =>
        \A i \in Wheels : wheelInfos[i].engineForce = maxForce /\ wheelInfos[i].brake = 0

\* W and arrow down held together below the speed limit
C30_Witness ==
    /\ lastUpdate.called
    /\ "w" \in lastUpdate.keys /\ "arrowdown" \in lastUpdate.keys
    /\ lastUpdate.speedSq > 0 /\ ~isOverMaxSpeed(lastUpdate.speedSq)
    /\ \A i \in Wheels : wheelInfos[i].engineForce = maxForce /\ wheelInfos[i].brake = 0

\* both mobile buttons held above the speed limit
C30_WitnessMobile ==
    /\ lastUpdate.called
    /\ lastUpdate.mc.defined /\ lastUpdate.mc.accelerate /\ lastUpdate.mc.brake
    /\ isOverMaxSpeed(lastUpdate.speedSq)
    /\ \A i \in Wheels : wheelInfos[i].engineForce = maxForce /\ wheelInfos[i].brake = 0

(***************************************************************************)
(* Invariants of the recovery timer.                                       *)
(***************************************************************************)
\* C31: at the end of every update call, isRecovering = true implies
\* recoveryTimer >= recoveryDelay, and recoveryTimer > 0 implies that the
\* fault condition and hasInput both held at the start of that call.
C31_TimerInvariant ==
    lastUpdate.called =>
        /\ isRecovering => FGeq(recoveryTimer, recoveryDelay)
        /\ recoveryTimer # FZero => (lastUpdate.fault /\ lastUpdate.hasInput)

\* a later tick of a running recovery: the flag is set, the timer is past
\* recoveryDelay, and fault and input held when the call began
C31_Witness ==
    /\ lastUpdate.called /\ lastUpdate.wasRecovering /\ isRecovering
    /\ FGeq(recoveryTimer, FAdd(recoveryDelay, Delta))
    /\ lastUpdate.fault /\ lastUpdate.hasInput

\* the timer is running below recoveryDelay and the flag is still clear
C31_WitnessCounting ==
    /\ lastUpdate.called /\ ~isRecovering
    /\ recoveryTimer # FZero /\ ~FGeq(recoveryTimer, recoveryDelay)
    /\ lastUpdate.fault /\ lastUpdate.hasInput

\* ceil(recoveryDelay / dt) with recoveryDelay = 2.0 and dt = 1/60
MinDemandTicks == 2 * FramesPerSecond

\* C32: recovery needs uninterrupted demand: a tick on which the input is
\* released or the fault is clear restarts the timer from 0, so isRecovering
\* is true only after at least ceil(recoveryDelay / dt) = 120 update calls in
\* a row with fault and input both holding; intermittent input never
\* accumulates toward the delay.
C32_UninterruptedDemand ==
    lastUpdate.called =>
        /\ lastUpdate.demandTicks = 0 => (recoveryTimer = FZero /\ ~isRecovering)
        /\ lastUpdate.demandTicks < MinDemandTicks => ~FGeq(recoveryTimer, recoveryDelay)
        /\ isRecovering => lastUpdate.demandTicks >= MinDemandTicks

\* a running recovery has just been interrupted by the release of the key,
\* the car still on its side: the timer and the count are back at 0
C32_Witness ==
    /\ lastUpdate.called /\ lastUpdate.wasRecovering
    /\ lastUpdate.physicsBody.quaternion = OnSideQuat /\ ~lastUpdate.hasInput
    /\ lastUpdate.demandTicks = 0 /\ recoveryTimer = FZero /\ ~isRecovering

\* the demand holds for the second tick in a row, the timer at two frames
C32_WitnessCounting ==
    /\ lastUpdate.called /\ ~isRecovering
    /\ lastUpdate.demandTicks = 2
    /\ recoveryTimer = FAdd(Delta, Delta)

\* the tick on which the recovery starts
C32_WitnessStart ==
    /\ lastUpdate.called /\ lastUpdate.startRecovery /\ isRecovering
    /\ lastUpdate.demandTicks >= MinDemandTicks

(***************************************************************************)
(* The end of a recovery while the physics leaves the orientation alone.   *)
(***************************************************************************)
\* a recovery is running on the overturned chassis
RecoveringOverturned == Overturned /\ isRecovering

\* the last update call ended the recovery through the else branch of
\* updateRecovery, on a chassis whose rotated up vector has y >= 0.3
EndedByHardReset ==
    /\ lastUpdate.called /\ ~isRecovering /\ recoveryTimer = FZero
    /\ ~lastUpdate.completed
    /\ UpY(lastUpdate.physicsBody.quaternion) >= StuckLimit

PanWheelDeltas == { -100000 }

\* event.touches of a touchmove: one finger 1 px to the right of the press,
\* or two fingers far apart
PanTouchMoveLists ==
    { <<p>> : p \in LookMovePoints } \cup { <<<<100, 300>>, <<1300, 1900>>>> }

\* the user drags only while the pan offsets of Scene and of the
\* CameraController are both below MaxLookPan / 1000
PanDragAllowed ==
    LookDragAllowed /\ Abs(cameraController.cameraPanOffset.x) < MaxLookPan

NextPan ==
    \/ loadCar
    \/ \E k \in CameraKeys : keydown(k, MaxCameraInputs)
    \/ \E k \in CameraKeys : keyup(k)
    \/ \E d \in PanWheelDeltas : wheel(d)
    \/ \E p \in PointerPoints : mousedown(0, p)
    \/ \E p \in LookMovePoints : PanDragAllowed /\ mousemove(p)
    \/ mouseup(0)
    \/ \E t \in TouchStartLists : touchstart(t)
    \/ \E t \in PanTouchMoveLists : PanDragAllowed /\ touchmove(t)
    \/ \E t \in TouchEndLists : touchend(t)
    \/ CameraController_resetToVehicle
    \/ animateWithController(RestOutcomes)

SpecPan == Init /\ [][NextPan]_vars

\* C34: in every reachable camera state isPanning = true implies
\* isDetached = true, in Scene and in the CameraController alike, under any
\* interleaving of press, move, release, wheel and pinch events, update ticks
\* and resetToVehicle calls.
C34_PanningImpliesDetached ==
    /\ isPanning => isDetached
    /\ cameraController.isPanning => cameraController.isDetached

\* a drag is held on both cameras after the last frame re-attached them, the
\* controller's offset cleared by resetToVehicle since
C34_Witness ==
    /\ isPanning /\ isDetached /\ lastCamera.reattached
    /\ cameraController.isPanning /\ cameraController.isDetached
    /\ cameraController.cameraPanOffset = Pan(0, 0) /\ cameraPanOffset # Pan(0, 0)

\* a frame has just re-attached both cameras while the drag was held
C34_WitnessReattached ==
    /\ lastCamera.called /\ lastCamera.reattached /\ lastCamera.wasPanning
    /\ ~isPanning /\ ~isDetached
    /\ ~cameraController.isPanning /\ ~cameraController.isDetached
    /\ cameraController.lastUpdate.wasDetached

\* a frame of SpecPan: Scene.animate and the controller's update
PanFrame == vehicle /\ animateWithController(RestOutcomes)

\* C35: once a drag has detached the camera it stays detached after the drag
\* is released: an update tick without driving input leaves isDetached true
\* and the pan offset as it was (not relaxed), and isDetached goes from true
\* to false only in an update tick that sees a driving input or in
\* resetToVehicle; for Scene and for the CameraController alike.
C35_DetachedPersists ==
    [][ /\ (isDetached /\ ~isPanning /\ ~isDriving /\ PanFrame)
            => (isDetached' /\ cameraPanOffset' = cameraPanOffset)
        /\ (cameraController.isDetached /\ ~cameraController.isPanning
                /\ ~isUserDriving(sceneKeys) /\ PanFrame)
            => /\ cameraController'.isDetached
               /\ cameraController'.cameraPanOffset = cameraController.cameraPanOffset
        /\ (isDetached /\ ~isDetached')
            => (isDriving /\ lastCamera'.called /\ lastCamera'.reattached)
        /\ (cameraController.isDetached /\ ~cameraController'.isDetached)
            => \/ cameraController' = resetToVehicle(cameraController)
               \/ /\ isUserDriving(sceneKeys)
                  /\ cameraController' =
                         CameraController_updated(cameraController, TRUE, chassisBody'.position, sceneKeys)
      ]_vars

\* a drag panned both cameras and was released, and a frame has run since
\* without driving input: both are still detached with the offset of the drag
C35_Witness ==
    /\ lastCamera.called /\ lastCamera.wasDetached /\ ~lastCamera.wasPanning
    /\ ~lastCamera.isDriving /\ ~lastCamera.reattached
    /\ isDetached /\ ~isPanning /\ cameraPanOffset = Pan(-14, 14)
    /\ cameraController.lastUpdate.called /\ cameraController.lastUpdate.wasDetached
    /\ ~cameraController.lastUpdate.isDriving
    /\ cameraController.isDetached /\ ~cameraController.isPanning
    /\ cameraController.cameraPanOffset = Pan(-14, 14)

\* a left-button press or a touch start with one finger, in SpecPan
PanPress ==
    \/ \E p \in PointerPoints : mousedown(0, p)
    \/ \E t \in TouchStartLists : Len(t) = 1 /\ touchstart(t)

\* a pointer move or a touch move with one finger, in SpecPan
PanMove ==
    \/ \E p \in LookMovePoints : mousemove(p)
    \/ \E t \in PanTouchMoveLists : Len(t) = 1 /\ touchmove(t)

\* C36: if a drag press arrives while a driving input is held, the next update
\* tick clears isPanning and isDetached, and the later drag-move events of the
\* gesture still held leave the pan offset unchanged until a new press event:
\* moves change nothing while isPanning is false, and only a press sets it.
C36_PressWhileDriving ==
    [][ /\ (isDriving /\ isPanning /\ PanFrame) => (~isPanning' /\ ~isDetached')
        /\ (~isPanning /\ PanMove) => cameraPanOffset' = cameraPanOffset
        /\ (~isPanning /\ isPanning') => PanPress ]_vars

\* "w" is held, the press came, and the next frame has re-attached the camera
\* with the button still down: the pointer is where it was pressed, nothing
\* has been panned
C36_Witness ==
    /\ "w" \in sceneKeys
    /\ lastCamera.called /\ lastCamera.isDriving /\ lastCamera.wasPanning /\ lastCamera.reattached
    /\ ~isPanning /\ ~isDetached
    /\ lastMouse \in PointerPoints /\ cameraPanOffset = Pan(0, 0)

(***************************************************************************)
(* The two keyboard maps.                                                  *)
(***************************************************************************)
\* Scene.keys and VehicleController.keys hold the same driving keys
KeysAgree == \A k \in DrivingKeys : (k \in sceneKeys) <=> (k \in vehicleKeys)

\* C37 (as stated): at every tick the keyboard state seen by the camera's
\* driving detection (Scene.keys) and the one seen by the vehicle's control and
\* hasInput logic (VehicleController.keys) agree for every driving key, for any
\* interleaving of keydown/keyup events with the loading of the car.
C37_KeyMapsAgree == [][ (vehicle /\ animate(PhysicsOutcomes)) => KeysAgree ]_vars

(***************************************************************************)
(* Zoom events.                                                            *)
(***************************************************************************)
\* a wheel event
WheelEvent == \E d \in WheelDeltas : wheel(d)

\* a pinch event: a touch start or a touch move with two fingers
PinchEvent ==
    \/ \E t \in TouchStartLists : Len(t) = 2 /\ touchstart(t)
    \/ \E t \in TouchMoveLists : Len(t) = 2 /\ touchmove(t)

\* the fields a camera follows the vehicle with: Scene's and the controller's
AttachmentFields ==
    <<isDetached, cameraPanOffset, lastCarPosition, cameraController.isDetached,
      cameraController.cameraPanOffset, cameraController.lastCarPosition>>

\* C38: wheel and pinch zoom events change only the scroll zoom and the pinch
\* bookkeeping: they leave isDetached, the pan offset and lastCarPosition
\* unchanged, so zooming never detaches the camera from the vehicle; a wheel
\* event also leaves isPanning unchanged.
C38_ZoomLeavesAttachment ==
    [][ /\ (WheelEvent \/ PinchEvent) => UNCHANGED AttachmentFields
        /\ WheelEvent => /\ isPanning' = isPanning
                         /\ cameraController'.isPanning = cameraController.isPanning
                         /\ UNCHANGED <<isPinching, lastPinchDistance, lastMouse>> ]_vars

\* the car is loaded, the wheel has zoomed both cameras and a pinch has zoomed
\* Scene's further, and both cameras are still attached
C38_Witness ==
    /\ vehicle /\ lastCamera.called
    /\ ~isDetached /\ ~cameraController.isDetached
    /\ isPinching /\ lastPinchDistance > 0
    /\ cameraController.cameraScrollZoom = ZoomMax /\ cameraScrollZoom = ZoomMin
    /\ lastCarPosition = chassisBody.position /\ cameraPanOffset = Pan(0, 0)

(***************************************************************************)
(* MobileControlsService: the joystick and the two buttons.  The class is  *)
(* not instantiated by Scene; its listeners are driven here with events    *)
(* drawn from small sets, an onStateChange callback being registered.      *)
(***************************************************************************)
\* getCurrentState(), as handed to the callback
getCurrentState(s) ==
    [ called |-> TRUE, accelerate |-> s.mobileAccelerate, brake |-> s.mobileBrake,
      steerX |-> s.joystickDirection.x, steerY |-> s.joystickDirection.y ]

\* notifyStateChange()
notifyStateChange(s) == [s EXCEPT !.notified = getCurrentState(s)]

\* updateJoystickPosition(clientX, clientY): the direction is computed as in
\* Scene.onJoystickMove, from the offset to the service's joystickCenter (the
\* centre of the same container)
updateJoystickPosition(s, clientX, clientY) ==
    notifyStateChange(
        [s EXCEPT !.joystickDirection =
                      JoystickDirectionOf(clientX - joystickCenter[1], clientY - joystickCenter[2])])

\* the rest of the program is left alone by a listener of the service
ServiceOnly == UNCHANGED <<inputVars, vehicleVars, cameraVars>>

MobileControlsService_onJoystickStart ==
    /\ mobileControlsService' = [mobileControlsService EXCEPT !.joystickActive = TRUE]
    /\ ServiceOnly

\* if (!this.joystickActive) return; ... this.updateJoystickPosition(clientX, clientY)
MobileControlsService_onJoystickMove(clientX, clientY) ==
    /\ mobileControlsService' =
           IF ~mobileControlsService.joystickActive THEN mobileControlsService
           ELSE updateJoystickPosition(mobileControlsService, clientX, clientY)
    /\ ServiceOnly

\* variant: the end of the gesture leaves the direction where the knob was
MobileControlsService_onJoystickEnd_KeepsDirection ==
    /\ mobileControlsService' =
           notifyStateChange([mobileControlsService EXCEPT !.joystickActive = FALSE])
    /\ ServiceOnly

MobileControlsService_onJoystickEnd ==
    /\ mobileControlsService' =
           notifyStateChange([mobileControlsService EXCEPT !.joystickActive = FALSE,
                                                           !.joystickDirection = [x |-> 0, y |-> 0]])
    /\ ServiceOnly

\* the touchstart (true) and touchend (false) listeners of the accelerate button
MobileControlsService_onAccelerate(b) ==
    /\ mobileControlsService' =
           notifyStateChange([mobileControlsService EXCEPT !.mobileAccelerate = b])
    /\ ServiceOnly

\* the same of the brake button
MobileControlsService_onBrake(b) ==
    /\ mobileControlsService' =
           notifyStateChange([mobileControlsService EXCEPT !.mobileBrake = b])
    /\ ServiceOnly

\* reset()
MobileControlsService_reset ==
    /\ mobileControlsService' =
           notifyStateChange([mobileControlsService EXCEPT !.joystickActive = FALSE,
                                                           !.joystickDirection = [x |-> 0, y |-> 0],
                                                           !.mobileAccelerate = FALSE,
                                                           !.mobileBrake = FALSE])
    /\ ServiceOnly

(***************************************************************************)
(* SpecMobile: the MobileControlsService under any sequence of its events. *)
(***************************************************************************)
\* offsets of the pointer from the joystick centre along each axis, in px:
\* on the centre, inside the 50 px travel and beyond it
ServiceOffsets == { -60, -30, -10, 0, 10, 30, 60 }

\* (clientX, clientY) of a touchmove or mousemove
ServicePoints ==
    { <<joystickCenter[1] + dx, joystickCenter[2] + dy>> : dx \in ServiceOffsets, dy \in ServiceOffsets }

NextMobile ==
    \/ MobileControlsService_onJoystickStart
    \/ \E p \in ServicePoints : MobileControlsService_onJoystickMove(p[1], p[2])
    \/ MobileControlsService_onJoystickEnd
    \/ \E b \in BOOLEAN : MobileControlsService_onAccelerate(b)
    \/ \E b \in BOOLEAN : MobileControlsService_onBrake(b)
    \/ MobileControlsService_reset

SpecMobile == Init /\ [][NextMobile]_vars

\* the direction is (0, 0) while the joystick is inactive, and both of its
\* components lie in [-1, 1]
JoystickStateOk ==
    /\ ~mobileControlsService.joystickActive
           => mobileControlsService.joystickDirection = [x |-> 0, y |-> 0]
    /\ mobileControlsService.joystickDirection.x \in -1000 .. 1000
    /\ mobileControlsService.joystickDirection.y \in -1000 .. 1000

\* a move event arrives while the joystick is inactive
InactiveMove ==
    /\ ~mobileControlsService.joystickActive
    /\ \E p \in ServicePoints : MobileControlsService_onJoystickMove(p[1], p[2])

\* C39: in MobileControlsService, whenever joystickActive is false the
\* joystick direction is (0, 0), and both components of the direction always
\* stay within [-1, 1], for any sequence of joystick start/move/end events and
\* reset calls; move events received while inactive change nothing.
C39_JoystickInvariant ==
    /\ []JoystickStateOk
    /\ [][InactiveMove => UNCHANGED mobileControlsService]_vars

\* the knob is held 60 px to the left of the centre, beyond its travel: the
\* direction is (-1, 0), which the callback was told
C39_Witness ==
    /\ mobileControlsService.joystickActive
    /\ mobileControlsService.joystickDirection = [x |-> -1000, y |-> 0]
    /\ mobileControlsService.notified.called
    /\ mobileControlsService.notified.steerX = -1000

\* the joystick is inactive again after the callback was told: the direction
\* is back at (0, 0) with a button still held
C39_WitnessReleased ==
    /\ ~mobileControlsService.joystickActive
    /\ mobileControlsService.notified.called
    /\ mobileControlsService.mobileAccelerate
    /\ mobileControlsService.joystickDirection = [x |-> 0, y |-> 0]

=============================================================================
